---- MODULE Spec2Model ----
(***************************************************************************)
(* Model of the plugin extension system of obsidian-host:                  *)
(*   src/src/services/plugin_service.rs  (registry, resolver, lifecycle)   *)
(*   src/src/services/plugin_api.rs      (host API, event bus, storage)    *)
(* Strings that the code parses (versions, version requirements) are       *)
(* sequences of one-character strings, so that splitting, trimming and     *)
(* number parsing are computed as the code computes them.                  *)
(***************************************************************************)
EXTENDS Integers, Sequences, FiniteSets, TLC

VARIABLES
    dir,          \* the plugins directory: its sub-directories, if it exists
    host_version, \* env!("CARGO_PKG_VERSION") of the running build
    disk,         \* content of .plugins_config.json
    files,        \* the vault behind the FileService delegate
    plugins,      \* PluginService.plugins
    runtimes,     \* PluginService.runtimes (each runner owns its PluginApi)
    load_order,   \* PluginService.load_order
    config,       \* PluginService.config.enabled_plugins
    event_bus,    \* EventBus: subscribers, commands, next_id
    storage,      \* PluginStorage.data
    ret,          \* what the last operation returned to its caller
    log,          \* calls the last operation made on runners and callbacks
    inp,          \* input of the pure function a specification applies
    out,          \* its output
    tasks         \* the registry lock and the position of each concurrent task

vars == <<dir, host_version, disk, files, plugins, runtimes, load_order,
          config, event_bus, storage, ret, log, inp, out, tasks>>

None == "none"

\* What `ret` and `out` hold before an operation has returned.
NoResult == [op |-> "none"]

(***************************************************************************)
(* Strings                                                                 *)
(***************************************************************************)
Digits == <<"0", "1", "2", "3", "4", "5", "6", "7", "8", "9">>

IsDigit(c) == \E d \in 1..10 : Digits[d] = c

DigitVal(c) == (CHOOSE d \in 1..10 : Digits[d] = c) - 1

RECURSIVE DigitsVal(_)
DigitsVal(s) ==
    IF s = <<>> THEN 0
    ELSE DigitsVal(SubSeq(s, 1, Len(s) - 1)) * 10 + DigitVal(s[Len(s)])

\* str::parse::<u32>(): an optional '+', then one or more decimal digits.
\* The strings drawn below have at most two digits per component, so the
\* overflow error of parse (a value above u32::MAX) is never met.
ParseOk(s) ==
    LET body == IF s # <<>> /\ s[1] = "+" THEN Tail(s) ELSE s
    IN  body # <<>> /\ \A i \in 1..Len(body) : IsDigit(body[i])

ParseU32(s) == DigitsVal(IF s[1] = "+" THEN Tail(s) ELSE s)

\* str::split(sep) for a one-character separator
RECURSIVE SplitOn(_, _)
SplitOn(s, sep) ==
    IF \A i \in 1..Len(s) : s[i] # sep
    THEN <<s>>
    ELSE LET i == CHOOSE k \in 1..Len(s) :
                      s[k] = sep /\ \A j \in 1..(k - 1) : s[j] # sep
         IN  <<SubSeq(s, 1, i - 1)>> \o SplitOn(SubSeq(s, i + 1, Len(s)), sep)

\* str::split('.')
Split(s) == SplitOn(s, ".")

\* str::contains
Contains(s, pat) ==
    \E i \in 1..(Len(s) + 1) :
        i + Len(pat) - 1 <= Len(s) /\ SubSeq(s, i, i + Len(pat) - 1) = pat

starts_with(s, p) == Len(s) >= Len(p) /\ SubSeq(s, 1, Len(p)) = p

\* str::trim_start_matches: strips the prefix as often as it repeats.
RECURSIVE trim_start_matches(_, _)
trim_start_matches(s, p) ==
    IF starts_with(s, p)
    THEN trim_start_matches(SubSeq(s, Len(p) + 1, Len(s)), p)
    ELSE s

\* split('.').filter_map(|s| s.parse().ok()).collect::<Vec<u32>>()
ParsedParts(s) ==
    LET ok == SelectSeq(Split(s), ParseOk)
    IN  [i \in 1..Len(ok) |-> ParseU32(ok[i])]

\* Ord for Vec<u32>: lexicographic, a strict prefix is the smaller one.
RECURSIVE VecGe(_, _)
VecGe(a, b) ==
    IF b = <<>> THEN TRUE
    ELSE IF a = <<>> THEN FALSE
    ELSE IF a[1] # b[1] THEN a[1] > b[1]
    ELSE VecGe(Tail(a), Tail(b))

\* Display of an unsigned integer, as a manifest author writes a component.
RECURSIVE ToStr(_)
ToStr(n) ==
    IF n < 10 THEN <<Digits[n + 1]>>
    ELSE ToStr(n \div 10) \o <<Digits[(n % 10) + 1]>>

FormatVersion(t) == ToStr(t[1]) \o <<".">> \o ToStr(t[2]) \o <<".">> \o ToStr(t[3])

(***************************************************************************)
(* Versions                                                                *)
(***************************************************************************)
is_valid_semver(version) ==
    LET parts == Split(version)
    IN  /\ Len(parts) = 3
        /\ \A i \in 1..Len(parts) : ParseOk(parts[i])

\* version_satisfies with the caret rule comparing minor and patch one by
\* one instead of as a pair.
version_satisfies_caret_componentwise(version, requirement) ==
    IF /\ ~starts_with(requirement, <<"^">>)
       /\ ~starts_with(requirement, <<"~">>)
       /\ ~starts_with(requirement, <<">", "=">>)
    THEN version = requirement
    ELSE
    LET req == trim_start_matches(
                   trim_start_matches(
                       trim_start_matches(requirement, <<"^">>), <<"~">>),
                   <<">", "=">>)
        version_parts == ParsedParts(version)
        req_parts == ParsedParts(req)
    IN  IF Len(version_parts) # 3 \/ Len(req_parts) # 3 THEN FALSE
        ELSE IF starts_with(requirement, <<"^">>)
        THEN /\ version_parts[1] = req_parts[1]
             /\ version_parts[2] >= req_parts[2]
             /\ version_parts[3] >= req_parts[3]
        ELSE IF starts_with(requirement, <<"~">>)
        THEN /\ version_parts[1] = req_parts[1]
             /\ version_parts[2] = req_parts[2]
             /\ version_parts[3] >= req_parts[3]
        ELSE IF starts_with(requirement, <<">", "=">>)
        THEN VecGe(version_parts, req_parts)
        ELSE version = requirement

version_satisfies(version, requirement) ==
    IF /\ ~starts_with(requirement, <<"^">>)
       /\ ~starts_with(requirement, <<"~">>)
       /\ ~starts_with(requirement, <<">", "=">>)
    THEN version = requirement
    ELSE
    LET req == trim_start_matches(
                   trim_start_matches(
                       trim_start_matches(requirement, <<"^">>), <<"~">>),
                   <<">", "=">>)
        version_parts == ParsedParts(version)
        req_parts == ParsedParts(req)
    IN  IF Len(version_parts) # 3 \/ Len(req_parts) # 3 THEN FALSE
        ELSE IF starts_with(requirement, <<"^">>)
        THEN /\ version_parts[1] = req_parts[1]
             /\ \/ version_parts[2] > req_parts[2]
                \/ /\ version_parts[2] = req_parts[2]
                   /\ version_parts[3] >= req_parts[3]
        ELSE IF starts_with(requirement, <<"~">>)
        THEN /\ version_parts[1] = req_parts[1]
             /\ version_parts[2] = req_parts[2]
             /\ version_parts[3] >= req_parts[3]
        ELSE IF starts_with(requirement, <<">", "=">>)
        THEN VecGe(version_parts, req_parts)
        ELSE version = requirement

(***************************************************************************)
(* Data                                                                    *)
(***************************************************************************)
Empty == [x \in {} |-> None]

\* f with the entry k removed / set (HashMap::remove, HashMap::insert)
Remove(f, k) == [x \in (DOMAIN f) \ {k} |-> f[x]]

Insert(f, k, v) == [x \in (DOMAIN f) \cup {k} |-> IF x = k THEN v ELSE f[x]]

Capabilities == {"ReadFiles", "WriteFiles", "DeleteFiles", "VaultMetadata",
                 "Network", "Storage", "ModifyUI", "Commands", "EditorAccess",
                 "SystemExec"}

EventTypes == {"FileOpen", "FileSave", "FileCreate", "FileDelete",
               "FileRename", "VaultSwitch", "EditorChange", "ShowNotice",
               "PluginMessage", "CommandExecute"}

\* No task is running and nothing holds the registry lock.
NoTasks == [writer |-> None, readers |-> {}, at |-> Empty, served |-> <<>>]

\* The plugins directory before anything created it.
NoDir == [exists |-> FALSE, entries |-> {}]

\* EventBus::new
NewEventBus == [subscribers |-> Empty, commands |-> Empty, next_id |-> 0]

\* PluginService::new apart from the configuration it reads, and the
\* variables a specification of one pure function leaves alone.
NewRegistry ==
    /\ plugins = Empty
    /\ runtimes = Empty
    /\ load_order = <<>>
    /\ event_bus = NewEventBus
    /\ storage = Empty
    /\ ret = NoResult
    /\ tasks = NoTasks
    /\ log = <<>>

NoEnvironment ==
    /\ dir = NoDir
    /\ host_version = <<>>
    /\ disk = [kind |-> "missing"]
    /\ files = Empty
    /\ config = {}

(***************************************************************************)
(* SpecVersion: version_satisfies on three-component versions              *)
(***************************************************************************)
\* Components include one- and two-digit numbers, so that a comparison of
\* the digits as text would differ from the numeric one (9 against 10).
Components == {0, 1, 2, 9, 10}

Triples == {<<a, b, c>> : a \in Components, b \in Components, c \in Components}

Prefix(kind) ==
    CASE kind = "exact" -> <<>>
      [] kind = "caret" -> <<"^">>
      [] kind = "tilde" -> <<"~">>
      [] kind = "ge"    -> <<">", "=">>

InitVersion ==
    /\ NewRegistry
    /\ NoEnvironment
    /\ inp \in [v : Triples, r : Triples, kind : {"exact", "caret", "tilde", "ge"}]
    /\ out = NoResult

ApplyVersionSatisfies ==
    /\ out = NoResult
    /\ out' = [op |-> "version_satisfies", satisfies |->
                   version_satisfies(FormatVersion(inp.v),
                                     Prefix(inp.kind) \o FormatVersion(inp.r))]
    /\ UNCHANGED <<dir, host_version, disk, files, plugins, runtimes,
                   load_order, config, event_bus, storage, ret, log, inp, tasks>>

SpecVersion == InitVersion /\ [][ApplyVersionSatisfies]_vars

\* Numeric comparison of two triples, component by component.
TripleGe(v, r) ==
    \/ v[1] > r[1]
    \/ v[1] = r[1] /\ v[2] > r[2]
    \/ v[1] = r[1] /\ v[2] = r[2] /\ v[3] >= r[3]

\* C5: for three-component versions v and r, version_satisfies(v, c) holds
\* exactly when c = r and v = r; c = ^r, same major and (minor, patch) >=;
\* c = ~r, same major and minor and patch >=; c = >=r and v >= r numerically.
C5_VersionGrammar ==
    out.op = "version_satisfies" =>
        (out.satisfies <=>
            CASE inp.kind = "exact" -> inp.v = inp.r
              [] inp.kind = "caret" ->
                    /\ inp.v[1] = inp.r[1]
                    /\ \/ inp.v[2] > inp.r[2]
                       \/ inp.v[2] = inp.r[2] /\ inp.v[3] >= inp.r[3]
              [] inp.kind = "tilde" ->
                    /\ inp.v[1] = inp.r[1]
                    /\ inp.v[2] = inp.r[2]
                    /\ inp.v[3] >= inp.r[3]
              [] inp.kind = "ge" -> TripleGe(inp.v, inp.r))

\* A two-digit minor against a one-digit one under the caret rule.
C5_Witness ==
    /\ out.op = "version_satisfies"
    /\ inp.kind = "caret"
    /\ inp.v = <<1, 10, 0>>
    /\ inp.r = <<1, 9, 2>>
    /\ out.satisfies

(***************************************************************************)
(* SpecValidate: validate_manifest                                         *)
(***************************************************************************)
Ok == [ok |-> TRUE, kind |-> "Ok"]

\* An error and what its message names: the extension, and for a dependency
\* error the dependency and the version requirement.
Err(kind, plugin, dep, req) ==
    [ok |-> FALSE, kind |-> kind, plugin |-> plugin, dep |-> dep, req |-> req]

NoVersion == [some |-> FALSE]

SomeVersion(s) == [some |-> TRUE, value |-> s]

\* validate_manifest that looks at the version before the name and the entry
\* point.
validate_manifest_version_first(manifest, host) ==
    IF manifest.id = "" THEN Err("empty_id", manifest.id, None, <<>>)
    ELSE IF ~is_valid_semver(manifest.version)
    THEN Err("invalid_version", manifest.id, None, <<>>)
    ELSE IF manifest.name = "" THEN Err("empty_name", manifest.id, None, <<>>)
    ELSE IF manifest.main = "" THEN Err("empty_main", manifest.id, None, <<>>)
    ELSE IF manifest.min_host_version.some
    THEN IF ~is_valid_semver(manifest.min_host_version.value)
         THEN Err("invalid_min_host_version", manifest.id, None, <<>>)
         ELSE IF ~version_satisfies(host, manifest.min_host_version.value)
         THEN Err("host_too_old", manifest.id, None, <<>>)
         ELSE Ok
    ELSE Ok

validate_manifest(manifest, host) ==
    IF manifest.id = "" THEN Err("empty_id", manifest.id, None, <<>>)
    ELSE IF manifest.name = "" THEN Err("empty_name", manifest.id, None, <<>>)
    ELSE IF manifest.main = "" THEN Err("empty_main", manifest.id, None, <<>>)
    ELSE IF ~is_valid_semver(manifest.version)
    THEN Err("invalid_version", manifest.id, None, <<>>)
    ELSE IF manifest.min_host_version.some
    THEN IF ~is_valid_semver(manifest.min_host_version.value)
         THEN Err("invalid_min_host_version", manifest.id, None, <<>>)
         ELSE IF ~version_satisfies(host, manifest.min_host_version.value)
         THEN Err("host_too_old", manifest.id, None, <<>>)
         ELSE Ok
    ELSE Ok

SmallComponents == {0, 1, 2}

SmallTriples ==
    {<<a, b, c>> : a \in SmallComponents, b \in SmallComponents, c \in SmallComponents}

ValidVersions == {FormatVersion(t) : t \in SmallTriples}

InvalidVersions == {<<"1", ".", "0">>, <<"x", ".", "1", ".", "2">>, <<>>}

InitValidate ==
    /\ NewRegistry
    /\ dir = NoDir
    /\ disk = [kind |-> "missing"]
    /\ files = Empty
    /\ config = {}
    /\ host_version \in ValidVersions
    /\ inp \in [id : {"", "p"}, name : {"", "P"}, main : {"", "main.py"},
                version : {FormatVersion(<<1, 0, 0>>)} \cup InvalidVersions,
                min_host_version :
                    {NoVersion} \cup
                    {SomeVersion(s) : s \in ValidVersions \cup InvalidVersions},
                dependencies : {Empty}, capabilities : {{}},
                plugin_type : {"Python"}]
    /\ out = NoResult

ApplyValidateManifest ==
    /\ out = NoResult
    /\ out' = [op |-> "validate_manifest",
               result |-> validate_manifest(inp, host_version)]
    /\ UNCHANGED <<dir, host_version, disk, files, plugins, runtimes,
                   load_order, config, event_bus, storage, ret, log, inp, tasks>>

SpecValidate == InitValidate /\ [][ApplyValidateManifest]_vars

\* C6: a manifest whose minimum-host-version is a valid three-component
\* version (and that passes the rules before it) passes validation exactly
\* when the host version is numerically greater than or equal to it.
C6_MinHostVersionGe ==
    (/\ out.op = "validate_manifest"
     /\ inp.id # "" /\ inp.name # "" /\ inp.main # ""
     /\ is_valid_semver(inp.version)
     /\ inp.min_host_version.some
     /\ is_valid_semver(inp.min_host_version.value))
    => (out.result.ok <=>
            TripleGe(ParsedParts(host_version),
                     ParsedParts(inp.min_host_version.value)))

(***************************************************************************)
(* Dependency resolver                                                     *)
(***************************************************************************)
\* The sequences that enumerate a set: the orders a HashMap may iterate in.
Orders(S) ==
    {o \in [1..Cardinality(S) -> S] : \A i, j \in DOMAIN o : o[i] = o[j] => i = j}

Dependencies(p) == plugins[p].manifest.dependencies

\* The iteration orders of the dependency maps of the extensions in S: one
\* order for each manifest, chosen independently.
RECURSIVE DepOrdersOf(_)
DepOrdersOf(S) ==
    IF S = {} THEN {Empty}
    ELSE LET p == CHOOSE x \in S : TRUE
         IN  {Insert(f, p, o) : f \in DepOrdersOf(S \ {p}),
                                o \in Orders(DOMAIN Dependencies(p))}

DepOrders == DepOrdersOf(DOMAIN plugins)

RECURSIVE visit_plugin(_, _, _)
RECURSIVE visit_dependencies(_, _, _, _)

\* visit_dependencies that skips a dependency that is not installed.
visit_dependencies_skip_missing(plugin_id, deps, st, depOrder) ==
    IF deps = <<>> THEN st
    ELSE LET dep_id == Head(deps)
             version_req == Dependencies(plugin_id)[dep_id]
         IN  IF dep_id \in DOMAIN plugins
             THEN IF ~version_satisfies(plugins[dep_id].manifest.version, version_req)
                  THEN [st EXCEPT !.err = Err("version", plugin_id, dep_id, version_req)]
                  ELSE LET st2 == visit_plugin(dep_id, st, depOrder)
                       IN  IF st2.err.ok
                           THEN visit_dependencies(plugin_id, Tail(deps), st2, depOrder)
                           ELSE st2
             ELSE visit_dependencies(plugin_id, Tail(deps), st, depOrder)

\* visit_dependencies that visits a dependency without comparing versions.
visit_dependencies_no_version_check(plugin_id, deps, st, depOrder) ==
    IF deps = <<>> THEN st
    ELSE LET dep_id == Head(deps)
             version_req == Dependencies(plugin_id)[dep_id]
         IN  IF dep_id \in DOMAIN plugins
             THEN LET st2 == visit_plugin(dep_id, st, depOrder)
                  IN  IF st2.err.ok
                      THEN visit_dependencies(plugin_id, Tail(deps), st2, depOrder)
                      ELSE st2
             ELSE [st EXCEPT !.err = Err("missing", plugin_id, dep_id, version_req)]

\* The loop over plugin.manifest.dependencies of visit_plugin: deps is what
\* is left of the iteration, st = [visited, visiting, load_order, err].
visit_dependencies(plugin_id, deps, st, depOrder) ==
    IF deps = <<>> THEN st
    ELSE LET dep_id == Head(deps)
             version_req == Dependencies(plugin_id)[dep_id]
         IN  IF dep_id \in DOMAIN plugins
             THEN IF ~version_satisfies(plugins[dep_id].manifest.version, version_req)
                  THEN [st EXCEPT !.err = Err("version", plugin_id, dep_id, version_req)]
                  ELSE LET st2 == visit_plugin(dep_id, st, depOrder)
                       IN  IF st2.err.ok
                           THEN visit_dependencies(plugin_id, Tail(deps), st2, depOrder)
                           ELSE st2
             ELSE [st EXCEPT !.err = Err("missing", plugin_id, dep_id, version_req)]

\* visit_plugin that appends the extension before visiting its dependencies.
visit_plugin_preorder(plugin_id, st, depOrder) ==
    IF plugin_id \in st.visited THEN st
    ELSE IF plugin_id \in st.visiting
    THEN [st EXCEPT !.err = Err("circular", plugin_id, None, <<>>)]
    ELSE LET st1 == [st EXCEPT !.visiting = @ \cup {plugin_id},
                               !.load_order = Append(@, plugin_id)]
             st2 == IF plugin_id \in DOMAIN plugins
                    THEN visit_dependencies(plugin_id, depOrder[plugin_id], st1, depOrder)
                    ELSE st1
         IN  IF ~st2.err.ok THEN st2
             ELSE [st2 EXCEPT !.visiting = @ \ {plugin_id},
                              !.visited = @ \cup {plugin_id}]

\* visit_plugin without the visiting check: a revisit is taken as done.
visit_plugin_no_cycle_check(plugin_id, st, depOrder) ==
    IF plugin_id \in st.visited \/ plugin_id \in st.visiting THEN st
    ELSE LET st1 == [st EXCEPT !.visiting = @ \cup {plugin_id}]
             st2 == IF plugin_id \in DOMAIN plugins
                    THEN visit_dependencies(plugin_id, depOrder[plugin_id], st1, depOrder)
                    ELSE st1
         IN  IF ~st2.err.ok THEN st2
             ELSE [st2 EXCEPT !.visiting = @ \ {plugin_id},
                              !.visited = @ \cup {plugin_id},
                              !.load_order = Append(@, plugin_id)]

visit_plugin(plugin_id, st, depOrder) ==
    IF plugin_id \in st.visited THEN st
    ELSE IF plugin_id \in st.visiting
    THEN [st EXCEPT !.err = Err("circular", plugin_id, None, <<>>)]
    ELSE LET st1 == [st EXCEPT !.visiting = @ \cup {plugin_id}]
             st2 == IF plugin_id \in DOMAIN plugins
                    THEN visit_dependencies(plugin_id, depOrder[plugin_id], st1, depOrder)
                    ELSE st1
         IN  IF ~st2.err.ok THEN st2
             ELSE [st2 EXCEPT !.visiting = @ \ {plugin_id},
                              !.visited = @ \cup {plugin_id},
                              !.load_order = Append(@, plugin_id)]

\* The loop of resolve_dependencies over self.plugins.keys(), with `?`.
RECURSIVE visit_all(_, _, _)
visit_all(keys, st, depOrder) ==
    IF keys = <<>> THEN st
    ELSE LET st2 == visit_plugin(Head(keys), st, depOrder)
         IN  IF st2.err.ok THEN visit_all(Tail(keys), st2, depOrder) ELSE st2

resolve_dependencies ==
    \E keys \in Orders(DOMAIN plugins), depOrder \in DepOrders :
        LET st == visit_all(keys,
                            [visited |-> {}, visiting |-> {}, load_order |-> <<>>,
                             err |-> Ok],
                            depOrder)
        IN  /\ load_order' = IF st.err.ok THEN st.load_order ELSE load_order
            /\ ret' = [op |-> "resolve_dependencies", result |-> st.err,
                       order |-> IF st.err.ok THEN st.load_order ELSE <<>>]
            /\ UNCHANGED <<dir, host_version, disk, files, plugins, runtimes,
                           config, event_bus, storage, log, inp, out, tasks>>

(***************************************************************************)
(* SpecResolve: resolve_dependencies over a discovered registry            *)
(***************************************************************************)
ResolveIds == {"a", "b", "c"}

\* An id that manifests may name and that no directory provides.
UnknownId == "x"

MaxEdges == 3

\* The subscriptions an event bus hands out before the model stops subscribing.
MaxSubs == 1

\* The storage keys an extension uses: 1..MaxKeys.
MaxKeys == 2

CaretOne == <<"^">> \o FormatVersion(<<1, 0, 0>>)

InstalledVersions == {FormatVersion(<<1, 2, 0>>), FormatVersion(<<2, 0, 0>>)}

Manifest(id, version, deps, caps) ==
    [id |-> id, name |-> id, main |-> "main.py", version |-> version,
     min_host_version |-> NoVersion, dependencies |-> deps,
     capabilities |-> caps, plugin_type |-> "Python"]

\* The Plugin that load_plugin_manifest builds.
NewPlugin(manifest, enabled) ==
    [manifest |-> manifest, enabled |-> enabled,
     state |-> IF enabled THEN "Unloaded" ELSE "Disabled",
     last_error |-> None]

\* The dependency declarations the manifests may hold between them: on any
\* discovered extension (on itself too) and on the unknown id.
DeclaredEdgeSets ==
    {E \in SUBSET (ResolveIds \X (ResolveIds \cup {UnknownId})) :
        Cardinality(E) <= MaxEdges}

InitResolve ==
    /\ \E E \in DeclaredEdgeSets,
          version \in [ResolveIds -> InstalledVersions],
          disabled \in {{}, {"c"}} :
          plugins = [p \in ResolveIds |->
                        NewPlugin(Manifest(p, version[p],
                                           [d \in {e[2] : e \in {x \in E : x[1] = p}}
                                               |-> CaretOne],
                                           {}),
                                  p \notin disabled)]
    /\ runtimes = Empty
    /\ load_order = <<>>
    /\ event_bus = NewEventBus
    /\ storage = Empty
    /\ ret = NoResult
    /\ tasks = NoTasks
    /\ log = <<>>
    /\ NoEnvironment
    /\ inp = NoResult
    /\ out = NoResult

SpecResolve == InitResolve /\ [][resolve_dependencies]_vars

\* The dependency edges between discovered extensions, and the extensions
\* reachable from p along one or more of them.
Edges == {e \in (DOMAIN plugins) \X (DOMAIN plugins) : e[2] \in DOMAIN Dependencies(e[1])}

RECURSIVE ReachFrom(_, _)
ReachFrom(S, n) ==
    IF n = 0 THEN S
    ELSE ReachFrom(S \cup {e[2] : e \in {x \in Edges : x[1] \in S}}, n - 1)

Reachable(p) ==
    ReachFrom({e[2] : e \in {x \in Edges : x[1] = p}}, Cardinality(DOMAIN plugins))

OnCycle(p) == p \in DOMAIN plugins /\ p \in Reachable(p)

Acyclic == \A p \in DOMAIN plugins : ~OnCycle(p)

AllInstalled ==
    \A p \in DOMAIN plugins : DOMAIN Dependencies(p) \subseteq DOMAIN plugins

Unmet(p, d) ==
    /\ p \in DOMAIN plugins
    /\ d \in DOMAIN Dependencies(p)
    /\ d \in DOMAIN plugins
    /\ ~version_satisfies(plugins[d].manifest.version, Dependencies(p)[d])

AllMet == \A p, d \in DOMAIN plugins : ~Unmet(p, d)

Resolved == ret.op = "resolve_dependencies"

Position(order, p) == CHOOSE i \in 1..Len(order) : order[i] = p

\* C1: for an acyclic graph whose dependencies are all installed and whose
\* constraints are all met, resolve_dependencies succeeds with an order that
\* holds every discovered extension exactly once, each after its dependencies.
C1_TopologicalOrder ==
    (Resolved /\ Acyclic /\ AllInstalled /\ AllMet) =>
        /\ ret.result.ok
        /\ Len(ret.order) = Cardinality(DOMAIN plugins)
        /\ {ret.order[i] : i \in 1..Len(ret.order)} = DOMAIN plugins
        /\ load_order = ret.order
        /\ \A e \in Edges : Position(ret.order, e[2]) < Position(ret.order, e[1])

\* a depends on b and c, b depends on c: the order is c, b, a.
C1_Witness ==
    /\ Resolved /\ Acyclic /\ AllInstalled /\ AllMet
    /\ Edges = {<<"a", "b">>, <<"a", "c">>, <<"b", "c">>}
    /\ ret.order = <<"c", "b", "a">>

\* C2 as claimed: a graph with a cycle is always rejected and the error
\* names an extension that lies on a cycle, whatever other edges exist.
C2_CycleErrorNamesCycle ==
    (Resolved /\ ~Acyclic) =>
        /\ ~ret.result.ok
        /\ OnCycle(ret.result.plugin) \/ OnCycle(ret.result.dep)

\* C2 amended: a graph with a cycle is always rejected; a circular-dependency
\* error names an extension on a cycle, and it is the error reported when
\* every declared dependency is installed and meets its constraint.
C2_CycleRejected ==
    (Resolved /\ ~Acyclic) =>
        /\ ~ret.result.ok
        /\ load_order = <<>>
        /\ ret.result.kind = "circular" => OnCycle(ret.result.plugin)
        /\ (AllInstalled /\ AllMet) => ret.result.kind = "circular"

\* A cycle a -> b -> c -> a entered from c.
C2_Witness ==
    /\ Resolved
    /\ Edges = {<<"a", "b">>, <<"b", "c">>, <<"c", "a">>}
    /\ AllInstalled /\ AllMet
    /\ ret.result.kind = "circular"
    /\ ret.result.plugin = "c"

\* C3: a manifest (of an enabled or a disabled extension) that depends on an
\* id that was not discovered makes resolve_dependencies fail; no order is
\* returned or stored.
C3_UnknownDependencyFails ==
    (Resolved /\ ~AllInstalled) =>
        /\ ~ret.result.ok
        /\ ret.order = <<>>
        /\ load_order = <<>>

\* The disabled extension c names the unknown id, a and b are in order.
C3_Witness ==
    /\ Resolved
    /\ ~plugins["c"].enabled
    /\ UnknownId \in DOMAIN Dependencies("c")
    /\ DOMAIN Dependencies("a") = {"b"}
    /\ DOMAIN Dependencies("b") = {}
    /\ AllMet
    /\ ret.result = Err("missing", "c", UnknownId, CaretOne)

\* C4 as claimed: an installed dependency whose version does not meet the
\* requester's constraint makes resolution fail with an error naming the
\* requester and its unmet constraint.
C4_UnmetConstraintNamed ==
    (Resolved /\ ~AllMet) =>
        /\ ~ret.result.ok
        /\ ret.result.kind = "version"
        /\ Unmet(ret.result.plugin, ret.result.dep)
        /\ ret.result.req = Dependencies(ret.result.plugin)[ret.result.dep]

\* C4 amended: resolution then always fails, never yielding an order; a
\* version error names a requester and a constraint of it that is unmet, and
\* it is the error reported when the graph is acyclic and nothing is missing.
C4_UnmetConstraintFails ==
    (Resolved /\ ~AllMet) =>
        /\ ~ret.result.ok
        /\ ret.order = <<>>
        /\ load_order = <<>>
        /\ ret.result.kind = "version" =>
              /\ Unmet(ret.result.plugin, ret.result.dep)
              /\ ret.result.req = Dependencies(ret.result.plugin)[ret.result.dep]
        /\ (AllInstalled /\ Acyclic) => ret.result.kind = "version"

\* b requires a ^1.0.0, c requires b, and a is installed at 2.0.0.
C4_Witness ==
    /\ Resolved
    /\ Edges = {<<"b", "a">>, <<"c", "b">>}
    /\ AllInstalled
    /\ plugins["a"].manifest.version = FormatVersion(<<2, 0, 0>>)
    /\ plugins["b"].manifest.version = FormatVersion(<<1, 2, 0>>)
    /\ ret.result = Err("version", "b", "a", CaretOne)

(***************************************************************************)
(* Host API: PluginStorage, EventBus, FileService delegate                 *)
(***************************************************************************)
\* AppError::Forbidden("Plugin {id} does not have {capability} capability")
Forbidden(plugin_id, capability) ==
    [ok |-> FALSE, kind |-> "Forbidden", plugin |-> plugin_id,
     capability |-> capability]

\* Any other AppError, by its variant.
AppError(kind) == [ok |-> FALSE, kind |-> kind]

NoValue == [some |-> FALSE]

SomeValue(v) == [some |-> TRUE, value |-> v]

\* check_capability that grants everything.
check_capability_grant_all(api, capability) == Ok

check_capability(api, capability) ==
    IF capability \notin api.capabilities
    THEN Forbidden(api.plugin_id, capability)
    ELSE Ok

PluginStorage_get(data, plugin_id, key) ==
    IF plugin_id \in DOMAIN data /\ key \in DOMAIN data[plugin_id]
    THEN SomeValue(data[plugin_id][key])
    ELSE NoValue

\* PluginStorage::set that keeps one map of keys for all extensions.
PluginStorage_set_shared(data, plugin_id, key, value) ==
    [x \in (DOMAIN data) \cup {plugin_id} |->
        Insert(IF x \in DOMAIN data THEN data[x] ELSE Empty, key, value)]

PluginStorage_set(data, plugin_id, key, value) ==
    Insert(data, plugin_id,
           Insert(IF plugin_id \in DOMAIN data THEN data[plugin_id] ELSE Empty,
                  key, value))

PluginStorage_delete(data, plugin_id, key) ==
    IF plugin_id \in DOMAIN data
    THEN [data EXCEPT ![plugin_id] = Remove(@, key)]
    ELSE data

PluginStorage_clear(data, plugin_id) == Remove(data, plugin_id)

Subscribers(bus, event_type) ==
    IF event_type \in DOMAIN bus.subscribers THEN bus.subscribers[event_type] ELSE <<>>

\* subscribe that puts the new subscription in front of the earlier ones.
EventBus_subscribe_front(bus, event_type, callback) ==
    [bus EXCEPT
        !.next_id = bus.next_id + 1,
        !.subscribers =
            Insert(bus.subscribers, event_type,
                   <<[id |-> bus.next_id, callback |-> callback]>>
                       \o Subscribers(bus, event_type))]

\* subscribe that numbers a subscription by the count of the live ones.
EventBus_subscribe_id_from_len(bus, event_type, callback) ==
    LET live == Len(Subscribers(bus, event_type))
    IN  [bus EXCEPT
            !.next_id = bus.next_id + 1,
            !.subscribers =
                Insert(bus.subscribers, event_type,
                       Append(Subscribers(bus, event_type),
                              [id |-> live, callback |-> callback]))]

\* EventBus::subscribe. The id "sub_<n>" is held as the number n: the text
\* is the decimal display of n after a fixed prefix, one text for each n.
EventBus_subscribe(bus, event_type, callback) ==
    [bus EXCEPT
        !.next_id = bus.next_id + 1,
        !.subscribers =
            Insert(bus.subscribers, event_type,
                   Append(Subscribers(bus, event_type),
                          [id |-> bus.next_id, callback |-> callback]))]

\* unsubscribe that keeps the subscriptions issued after the given id.
EventBus_unsubscribe_retain_later(bus, subscription_id) ==
    [bus EXCEPT
        !.subscribers =
            [t \in DOMAIN bus.subscribers |->
                SelectSeq(bus.subscribers[t], LAMBDA sub : sub.id > subscription_id)]]

\* EventBus::unsubscribe: retain, in every list, what has another id. The
\* lists stay in the map, an emptied one too.
EventBus_unsubscribe(bus, subscription_id) ==
    [bus EXCEPT
        !.subscribers =
            [t \in DOMAIN bus.subscribers |->
                SelectSeq(bus.subscribers[t], LAMBDA sub : sub.id # subscription_id)]]

\* EventBus::emit: the callbacks it invokes, in order.
EventBus_emit(bus, event) ==
    LET subs == Subscribers(bus, event.event_type)
    IN  [i \in 1..Len(subs) |->
            [call |-> "callback", id |-> subs[i].id,
             callback |-> subs[i].callback, event |-> event]]

EventBus_register_command(bus, command_id, command) ==
    [bus EXCEPT !.commands = Insert(bus.commands, command_id, command)]

\* FileService::resolve_path: a path with a `..` component or a leading `/`
\* is refused.
ValidPath(file_path) ==
    /\ file_path # <<>>
    /\ file_path[1] # "/"
    /\ LET components == SplitOn(file_path, "/")
       IN  \A i \in 1..Len(components) : components[i] # <<".", ".">>

FileService_read_file(vault, file_path) ==
    IF ~ValidPath(file_path) THEN [result |-> AppError("InvalidInput")]
    ELSE IF file_path \notin DOMAIN vault THEN [result |-> AppError("NotFound")]
    ELSE [result |-> Ok, content |-> vault[file_path]]

FileService_write_file(vault, file_path, content) ==
    IF ~ValidPath(file_path)
    THEN [result |-> AppError("InvalidInput"), vault |-> vault]
    ELSE [result |-> Ok, vault |-> Insert(vault, file_path, content)]

\* FileService::delete_file moves the file to the vault's trash folder.
FileService_delete_file(vault, file_path) ==
    IF ~ValidPath(file_path)
    THEN [result |-> AppError("InvalidInput"), vault |-> vault]
    ELSE IF file_path \notin DOMAIN vault
    THEN [result |-> AppError("NotFound"), vault |-> vault]
    ELSE [result |-> Ok, vault |-> Remove(vault, file_path)]

FileService_get_file_tree(vault) == DOMAIN vault

(***************************************************************************)
(* PluginApi: one handle for each runner, holding its PluginContext        *)
(***************************************************************************)
Api(p) == runtimes[p].api

Returned(op, p, result, value) ==
    [op |-> op, by |-> p, result |-> result, value |-> value]

RegistryUnchanged ==
    UNCHANGED <<dir, host_version, disk, plugins, runtimes, load_order, config,
                inp, out, tasks>>

read_file(p, file_path) ==
    /\ p \in DOMAIN runtimes
    /\ LET chk == check_capability(Api(p), "ReadFiles")
           content == FileService_read_file(files, file_path)
       IN  ret' = IF ~chk.ok THEN Returned("read_file", p, chk, NoValue)
                  ELSE IF ~content.result.ok
                  THEN Returned("read_file", p, content.result, NoValue)
                  ELSE Returned("read_file", p, Ok, SomeValue(content.content))
    /\ log' = <<>>
    /\ UNCHANGED <<files, event_bus, storage>>
    /\ RegistryUnchanged

write_file(p, file_path, content) ==
    /\ p \in DOMAIN runtimes
    /\ LET chk == check_capability(Api(p), "WriteFiles")
           written == FileService_write_file(files, file_path, content)
       IN  IF ~chk.ok
           THEN /\ ret' = Returned("write_file", p, chk, NoValue)
                /\ UNCHANGED files
           ELSE /\ ret' = Returned("write_file", p, written.result, NoValue)
                /\ files' = written.vault
    /\ log' = <<>>
    /\ UNCHANGED <<event_bus, storage>>
    /\ RegistryUnchanged

delete_file(p, file_path) ==
    /\ p \in DOMAIN runtimes
    /\ LET chk == check_capability(Api(p), "DeleteFiles")
           deleted == FileService_delete_file(files, file_path)
       IN  IF ~chk.ok
           THEN /\ ret' = Returned("delete_file", p, chk, NoValue)
                /\ UNCHANGED files
           ELSE /\ ret' = Returned("delete_file", p, deleted.result, NoValue)
                /\ files' = deleted.vault
    /\ log' = <<>>
    /\ UNCHANGED <<event_bus, storage>>
    /\ RegistryUnchanged

list_files(p, pattern) ==
    /\ p \in DOMAIN runtimes
    /\ LET chk == check_capability(Api(p), "ReadFiles")
           all == FileService_get_file_tree(files)
           kept == IF pattern.some
                   THEN {f \in all : Contains(f, pattern.value)}
                   ELSE all
       IN  ret' = IF ~chk.ok THEN Returned("list_files", p, chk, NoValue)
                  ELSE Returned("list_files", p, Ok, SomeValue(kept))
    /\ log' = <<>>
    /\ UNCHANGED <<files, event_bus, storage>>
    /\ RegistryUnchanged

on_event(p, event_type) ==
    /\ p \in DOMAIN runtimes
    /\ event_bus.next_id < MaxSubs
    /\ event_bus' = EventBus_subscribe(event_bus, event_type, [owner |-> p])
    /\ ret' = Returned("on_event", p, Ok, SomeValue(event_bus.next_id))
    /\ log' = <<>>
    /\ UNCHANGED <<files, storage>>
    /\ RegistryUnchanged

emit_event(p, event) ==
    /\ p \in DOMAIN runtimes
    /\ log' = EventBus_emit(event_bus, event)
    /\ ret' = Returned("emit_event", p, Ok, NoValue)
    /\ UNCHANGED <<files, event_bus, storage>>
    /\ RegistryUnchanged

off_event(p, subscription_id) ==
    /\ p \in DOMAIN runtimes
    /\ event_bus' = EventBus_unsubscribe(event_bus, subscription_id)
    /\ ret' = Returned("off_event", p, Ok, NoValue)
    /\ log' = <<>>
    /\ UNCHANGED <<files, storage>>
    /\ RegistryUnchanged

storage_get(p, key) ==
    /\ p \in DOMAIN runtimes
    /\ LET chk == check_capability(Api(p), "Storage")
       IN  ret' = IF ~chk.ok THEN Returned("storage_get", p, chk, NoValue)
                  ELSE Returned("storage_get", p, Ok,
                                PluginStorage_get(storage, Api(p).plugin_id, key))
    /\ log' = <<>>
    /\ UNCHANGED <<files, event_bus, storage>>
    /\ RegistryUnchanged

storage_set(p, key, value) ==
    /\ p \in DOMAIN runtimes
    /\ LET chk == check_capability(Api(p), "Storage")
       IN  /\ ret' = Returned("storage_set", p, chk, NoValue)
           /\ storage' = IF ~chk.ok THEN storage
                         ELSE PluginStorage_set(storage, Api(p).plugin_id, key, value)
    /\ log' = <<>>
    /\ UNCHANGED <<files, event_bus>>
    /\ RegistryUnchanged

storage_delete(p, key) ==
    /\ p \in DOMAIN runtimes
    /\ LET chk == check_capability(Api(p), "Storage")
       IN  /\ ret' = Returned("storage_delete", p, chk, NoValue)
           /\ storage' = IF ~chk.ok THEN storage
                         ELSE PluginStorage_delete(storage, Api(p).plugin_id, key)
    /\ log' = <<>>
    /\ UNCHANGED <<files, event_bus>>
    /\ RegistryUnchanged

storage_clear(p) ==
    /\ p \in DOMAIN runtimes
    /\ LET chk == check_capability(Api(p), "Storage")
       IN  /\ ret' = Returned("storage_clear", p, chk, NoValue)
           /\ storage' = IF ~chk.ok THEN storage
                         ELSE PluginStorage_clear(storage, Api(p).plugin_id)
    /\ log' = <<>>
    /\ UNCHANGED <<files, event_bus>>
    /\ RegistryUnchanged

\* pulldown_cmark renders any text: the call has no failure path.
parse_markdown(p) ==
    /\ p \in DOMAIN runtimes
    /\ ret' = Returned("parse_markdown", p, Ok, NoValue)
    /\ log' = <<>>
    /\ UNCHANGED <<files, event_bus, storage>>
    /\ RegistryUnchanged

\* parse_frontmatter fails with InvalidInput on frontmatter that is not YAML.
extract_frontmatter(p, valid_yaml) ==
    /\ p \in DOMAIN runtimes
    /\ ret' = Returned("extract_frontmatter", p,
                       IF valid_yaml THEN Ok ELSE AppError("InvalidInput"), NoValue)
    /\ log' = <<>>
    /\ UNCHANGED <<files, event_bus, storage>>
    /\ RegistryUnchanged

\* The error of the unimplemented network operations.
HttpNotImplemented ==
    [ok |-> FALSE, kind |-> "InternalError",
     message |-> "HTTP client not yet implemented"]

\* http_get that answers with made-up data in place of the error.
http_get_fabricated(p) ==
    /\ p \in DOMAIN runtimes
    /\ LET chk == check_capability(Api(p), "Network")
       IN  ret' = IF ~chk.ok THEN Returned("http_get", p, chk, NoValue)
                  ELSE Returned("http_get", p, Ok, SomeValue(<<>>))
    /\ log' = <<>>
    /\ UNCHANGED <<files, event_bus, storage>>
    /\ RegistryUnchanged

http_get(p) ==
    /\ p \in DOMAIN runtimes
    /\ LET chk == check_capability(Api(p), "Network")
       IN  ret' = Returned("http_get", p,
                           IF ~chk.ok THEN chk ELSE HttpNotImplemented, NoValue)
    /\ log' = <<>>
    /\ UNCHANGED <<files, event_bus, storage>>
    /\ RegistryUnchanged

http_post(p) ==
    /\ p \in DOMAIN runtimes
    /\ LET chk == check_capability(Api(p), "Network")
       IN  ret' = Returned("http_post", p,
                           IF ~chk.ok THEN chk ELSE HttpNotImplemented, NoValue)
    /\ log' = <<>>
    /\ UNCHANGED <<files, event_bus, storage>>
    /\ RegistryUnchanged

\* format!("{}:{}", plugin_id, command.id)
CommandId(plugin_id, command) == <<plugin_id, ":">> \o command.id

register_command(p, command) ==
    /\ p \in DOMAIN runtimes
    /\ LET chk == check_capability(Api(p), "Commands")
           command_id == CommandId(Api(p).plugin_id, command)
       IN  IF ~chk.ok
           THEN /\ ret' = Returned("register_command", p, chk, NoValue)
                /\ UNCHANGED event_bus
           ELSE /\ ret' = Returned("register_command", p, Ok, SomeValue(command_id))
                /\ event_bus' = EventBus_register_command(event_bus, command_id, command)
    /\ log' = <<>>
    /\ UNCHANGED <<files, storage>>
    /\ RegistryUnchanged

DefaultNoticeDuration == 3000

show_notice(p, message, duration_ms) ==
    /\ p \in DOMAIN runtimes
    /\ LET chk == check_capability(Api(p), "ModifyUI")
           event == [event_type |-> "ShowNotice",
                     data |-> [message |-> message,
                               duration |-> IF duration_ms.some THEN duration_ms.value
                                            ELSE DefaultNoticeDuration]]
       IN  IF ~chk.ok
           THEN /\ ret' = Returned("show_notice", p, chk, NoValue)
                /\ log' = <<>>
           ELSE /\ ret' = Returned("show_notice", p, Ok, NoValue)
                /\ log' = EventBus_emit(event_bus, event)
    /\ UNCHANGED <<files, event_bus, storage>>
    /\ RegistryUnchanged

send_message(p, target_plugin, message) ==
    /\ p \in DOMAIN runtimes
    /\ log' = EventBus_emit(event_bus,
                            [event_type |-> "PluginMessage",
                             data |-> [from |-> Api(p).plugin_id,
                                       to |-> target_plugin,
                                       message |-> message]])
    /\ ret' = Returned("send_message", p, Ok, NoValue)
    /\ UNCHANGED <<files, event_bus, storage>>
    /\ RegistryUnchanged

(***************************************************************************)
(* SpecApi: two loaded extensions calling the host API                     *)
(***************************************************************************)
ApiIds == {"p", "q"}

GatedCapabilities ==
    {"ReadFiles", "WriteFiles", "DeleteFiles", "Network", "Storage", "ModifyUI",
     "Commands"}

\* The capability sets granted to p and q: p with none, some and all of the
\* gated capabilities beside a q that holds all, and the reverse.
CapChoices ==
    {[p |-> {}, q |-> Capabilities],
     [p |-> {"Storage", "Commands", "ReadFiles"}, q |-> Capabilities],
     [p |-> GatedCapabilities, q |-> GatedCapabilities],
     [p |-> Capabilities, q |-> {"VaultMetadata"}]}

\* The PluginContext and runner that load_plugin builds for a manifest.
NewRunner(manifest) ==
    [api |-> [plugin_id |-> manifest.id, vault_id |-> None,
              capabilities |-> manifest.capabilities],
     plugin_type |-> manifest.plugin_type]

\* The registry once the extensions of S, with capabilities caps, are loaded.
LoadedRegistry(S, caps) ==
    LET manifest(p) == Manifest(p, FormatVersion(<<1, 0, 0>>), Empty, caps[p])
    IN  /\ plugins = [p \in S |-> [NewPlugin(manifest(p), TRUE) EXCEPT !.state = "Loaded"]]
        /\ runtimes = [p \in S |-> NewRunner(manifest(p))]
        /\ load_order = <<>>
        /\ config = S
        /\ disk = [kind |-> "json", enabled_plugins |-> S]
        /\ dir = NoDir
        /\ host_version = <<>>

NotePath == <<"a", ".", "m", "d">>

TraversalPath == <<".", ".", "/", "a">>

FilePaths == {NotePath, TraversalPath}

Patterns == {NoValue, SomeValue(<<"a">>), SomeValue(<<"z">>)}

Keys == 1..MaxKeys

\* The values an extension stores carry its id, so that a value read back
\* tells who wrote it.
Values(p) == {<<p, "v1">>, <<p, "v2">>}

BusTypes == {"ShowNotice", "PluginMessage"}

BusEvents == {[event_type |-> t, data |-> "d"] : t \in BusTypes}

Commands == {[id |-> <<"c">>, name |-> "C", description |-> None, hotkey |-> None]}

Durations == {NoValue, SomeValue(500)}

InitApi ==
    /\ \E caps \in CapChoices : LoadedRegistry(ApiIds, caps)
    /\ files \in {Empty, [f \in {NotePath} |-> "c1"]}
    /\ event_bus = NewEventBus
    /\ storage = Empty
    /\ ret = NoResult
    /\ tasks = NoTasks
    /\ log = <<>>
    /\ inp = NoResult
    /\ out = NoResult

NextApi ==
    \E p \in ApiIds :
        \/ \E f \in FilePaths : read_file(p, f)
        \/ \E f \in FilePaths : write_file(p, f, "c1")
        \/ \E f \in FilePaths : delete_file(p, f)
        \/ \E pat \in Patterns : list_files(p, pat)
        \/ on_event(p, "PluginMessage")
        \/ \E e \in BusEvents : emit_event(p, e)
        \/ \E id \in 0..MaxSubs : off_event(p, id)
        \/ storage_get(p, 1)
        \/ storage_set(p, 1, <<p, "v1">>)
        \/ storage_delete(p, 1)
        \/ storage_clear(p)
        \/ parse_markdown(p)
        \/ \E valid_yaml \in BOOLEAN : extract_frontmatter(p, valid_yaml)
        \/ http_get(p)
        \/ http_post(p)
        \/ \E c \in Commands : register_command(p, c)
        \/ \E d \in Durations : show_notice(p, "m", d)
        \/ \E q \in ApiIds : send_message(p, q, "hello")

SpecApi == InitApi /\ [][NextApi]_vars

GatedOps ==
    {"read_file", "write_file", "delete_file", "list_files", "storage_get",
     "storage_set", "storage_delete", "storage_clear", "http_get", "http_post",
     "register_command", "show_notice"}

UngatedOps ==
    {"on_event", "emit_event", "off_event", "parse_markdown",
     "extract_frontmatter", "send_message"}

RequiredCapability(op) ==
    CASE op \in {"read_file", "list_files"} -> "ReadFiles"
      [] op = "write_file" -> "WriteFiles"
      [] op = "delete_file" -> "DeleteFiles"
      [] op \in {"storage_get", "storage_set", "storage_delete", "storage_clear"}
            -> "Storage"
      [] op \in {"http_get", "http_post"} -> "Network"
      [] op = "register_command" -> "Commands"
      [] op = "show_notice" -> "ModifyUI"

\* C7: a gated call by an extension whose granted set lacks the capability
\* returns Forbidden naming the capability and the extension and changes
\* nothing (storage, subscribers, commands, files; no callback runs); a call
\* by an extension that holds the capability is never refused with Forbidden.
C7_CapabilityGate ==
    [][ret'.op \in GatedOps =>
          LET p == ret'.by
              capability == RequiredCapability(ret'.op)
          IN  IF capability \in runtimes[p].api.capabilities
              THEN ret'.result.kind # "Forbidden"
              ELSE /\ ret'.result = Forbidden(p, capability)
                   /\ log' = <<>>
                   /\ UNCHANGED <<storage, event_bus, files>>]_vars

\* p is refused register_command while the command of q stays registered.
C7_Witness ==
    /\ ret.op = "register_command"
    /\ ret.by = "p"
    /\ ret.result = Forbidden("p", "Commands")
    /\ DOMAIN event_bus.commands = {<<"q", ":", "c">>}
    /\ "Commands" \in runtimes["q"].api.capabilities

\* C8: every host-API operation checks the caller's granted set first, so an
\* extension that was granted no capability is refused every operation.
C8_EveryOperationGated ==
    (ret.op \in GatedOps \cup UngatedOps /\ runtimes[ret.by].api.capabilities = {})
        => ret.result.kind = "Forbidden"

(***************************************************************************)
(* SpecStorage: the storage calls of two loaded extensions                 *)
(***************************************************************************)
InitStorage ==
    /\ \E caps \in [ApiIds -> {{}, {"Storage"}}] : LoadedRegistry(ApiIds, caps)
    /\ files = Empty
    /\ event_bus = NewEventBus
    /\ storage = Empty
    /\ ret = NoResult
    /\ tasks = NoTasks
    /\ log = <<>>
    /\ inp = NoResult
    /\ out = NoResult

NextStorage ==
    \E p \in ApiIds :
        \/ \E k \in Keys : storage_get(p, k)
        \/ \E k \in Keys, v \in Values(p) : storage_set(p, k, v)
        \/ \E k \in Keys : storage_delete(p, k)
        \/ storage_clear(p)

SpecStorage == InitStorage /\ [][NextStorage]_vars

StorageOps == {"storage_get", "storage_set", "storage_delete", "storage_clear"}

Namespace(data, p) == IF p \in DOMAIN data THEN SomeValue(data[p]) ELSE NoValue

\* C9: for distinct extensions p and q, a get by q never returns a value that
\* p wrote, no storage call by q changes the namespace of p, and a clear by q
\* removes exactly the namespace of q.
C9_StorageIsolation ==
    [][ret'.op \in StorageOps =>
          LET q == ret'.by
          IN  /\ \A p \in ApiIds \ {q} : Namespace(storage', p) = Namespace(storage, p)
              /\ (ret'.op = "storage_get" /\ ret'.value.some)
                    => ret'.value.value[1] = q
              /\ (ret'.op = "storage_clear" /\ ret'.result.ok)
                    => storage' = Remove(storage, q)]_vars

\* Both extensions hold the same key; q reads its own value back.
C9_Witness ==
    /\ ret = Returned("storage_get", "q", Ok, SomeValue(<<"q", "v2">>))
    /\ "p" \in DOMAIN storage
    /\ 1 \in DOMAIN storage["p"]
    /\ storage["p"][1] = <<"p", "v1">>

(***************************************************************************)
(* PluginService: configuration, discovery and lifecycle                   *)
(***************************************************************************)
PluginStates == {"Unloaded", "Loading", "Loaded", "Failed", "Disabled"}

PluginTypes == {"JavaScript", "Wasm", "Python"}

\* load_config that takes a file it cannot parse for one enabling everything.
load_config_corrupt_enables_all(d) ==
    IF d.kind = "json" THEN d.enabled_plugins
    ELSE IF d.kind = "corrupt" THEN ApiIds ELSE {}

\* load_config(..).unwrap_or_default(): no file gives the default, and so
\* does a file that cannot be read or parsed.
load_config(d) == IF d.kind = "json" THEN d.enabled_plugins ELSE {}

\* The file after save_config wrote enabled_plugins; it stays as it was when
\* the write fails.
save_config(d, enabled_plugins, write_ok) ==
    IF write_ok THEN [kind |-> "json", enabled_plugins |-> enabled_plugins] ELSE d

\* A sub-directory of the plugins directory.
DirEntry(manifest, has_manifest, parses) ==
    [manifest |-> manifest, has_manifest |-> has_manifest, parses |-> parses]

default_plugin_type == "JavaScript"

\* serde_json::from_str::<PluginManifest>: a manifest text that gives no
\* plugin_type is read with the default one.
PluginManifest_from_json(json) ==
    IF "plugin_type" \in DOMAIN json THEN json
    ELSE [f \in (DOMAIN json) \cup {"plugin_type"} |->
             IF f = "plugin_type" THEN default_plugin_type ELSE json[f]]

load_plugin_manifest(entry, enabled_plugins, host) ==
    IF ~entry.has_manifest THEN [result |-> AppError("manifest_not_found")]
    ELSE IF ~entry.parses THEN [result |-> AppError("manifest_parse")]
    ELSE LET manifest == PluginManifest_from_json(entry.manifest)
             valid == validate_manifest(manifest, host)
         IN  IF ~valid.ok THEN [result |-> valid]
             ELSE [result |-> Ok,
                   plugin |-> NewPlugin(manifest, manifest.id \in enabled_plugins)]

\* What a PluginService operation returns to its caller.
Result(op, plugin_id, result) == [op |-> op, id |-> plugin_id, result |-> result]

\* PluginService::new over the plugins directory: a restart of the registry.
new ==
    /\ plugins' = Empty
    /\ runtimes' = Empty
    /\ load_order' = <<>>
    /\ config' = load_config(disk)
    /\ event_bus' = NewEventBus
    /\ storage' = Empty
    /\ ret' = Result("new", None, Ok)
    /\ log' = <<>>
    /\ UNCHANGED <<dir, host_version, disk, files, inp, out, tasks>>

discover_plugins(mkdir_ok, write_ok) ==
    IF ~dir.exists
    THEN /\ dir' = IF mkdir_ok THEN [exists |-> TRUE, entries |-> {}] ELSE dir
         /\ ret' = Result("discover_plugins", None,
                          IF mkdir_ok THEN Ok ELSE AppError("create_dir"))
         /\ log' = <<>>
         /\ UNCHANGED <<host_version, disk, files, plugins, runtimes, load_order,
                        config, event_bus, storage, inp, out, tasks>>
    ELSE LET is_first_run == config = {}
             loaded == {load_plugin_manifest(e, config, host_version) :
                            e \in dir.entries}
             found == {l.plugin : l \in {x \in loaded : x.result.ok}}
             discovered_ids == {pl.manifest.id : pl \in found}
             of(id) == CHOOSE pl \in found : pl.manifest.id = id
             plugin(id) == IF is_first_run
                           THEN [of(id) EXCEPT !.enabled = TRUE,
                                               !.state = "Unloaded"]
                           ELSE of(id)
         IN  /\ plugins' = [id \in (DOMAIN plugins) \cup discovered_ids |->
                               IF id \in discovered_ids THEN plugin(id)
                               ELSE plugins[id]]
             /\ config' = IF is_first_run THEN config \cup discovered_ids
                          ELSE config
             /\ disk' = IF is_first_run /\ discovered_ids # {}
                        THEN save_config(disk, config', write_ok)
                        ELSE disk
             /\ ret' = Result("discover_plugins", None, Ok)
             /\ log' = <<>>
             /\ UNCHANGED <<dir, host_version, files, runtimes, load_order,
                            event_bus, storage, inp, out, tasks>>

LifecycleUnchanged ==
    UNCHANGED <<dir, host_version, files, load_order, event_bus, storage, inp, out, tasks>>

enable_plugin(plugin_id, write_ok) ==
    /\ IF plugin_id \notin DOMAIN plugins
       THEN /\ ret' = Result("enable_plugin", plugin_id, AppError("NotFound"))
            /\ UNCHANGED <<plugins, config, disk>>
       ELSE IF plugins[plugin_id].enabled
       THEN /\ ret' = Result("enable_plugin", plugin_id, Ok)
            /\ UNCHANGED <<plugins, config, disk>>
       ELSE /\ plugins' = [plugins EXCEPT ![plugin_id].enabled = TRUE,
                                          ![plugin_id].state = "Unloaded"]
            /\ config' = config \cup {plugin_id}
            /\ disk' = save_config(disk, config', write_ok)
            /\ ret' = Result("enable_plugin", plugin_id,
                             IF write_ok THEN Ok ELSE AppError("save_config"))
    /\ log' = <<>>
    /\ UNCHANGED runtimes
    /\ LifecycleUnchanged

disable_plugin(plugin_id, write_ok) ==
    /\ IF plugin_id \notin DOMAIN plugins
       THEN /\ ret' = Result("disable_plugin", plugin_id, AppError("NotFound"))
            /\ UNCHANGED <<plugins, config, disk>>
       ELSE IF ~plugins[plugin_id].enabled
       THEN /\ ret' = Result("disable_plugin", plugin_id, Ok)
            /\ UNCHANGED <<plugins, config, disk>>
       ELSE /\ plugins' = [plugins EXCEPT ![plugin_id].enabled = FALSE,
                                          ![plugin_id].state = "Disabled"]
            /\ config' = config \ {plugin_id}
            /\ disk' = save_config(disk, config', write_ok)
            /\ ret' = Result("disable_plugin", plugin_id,
                             IF write_ok THEN Ok ELSE AppError("save_config"))
    /\ log' = <<>>
    /\ UNCHANGED runtimes
    /\ LifecycleUnchanged

\* get_enabled_plugins that forgets the filter on the enabled flag.
get_enabled_plugins_unfiltered ==
    SelectSeq(load_order, LAMBDA id : id \in DOMAIN plugins)

\* get_enabled_plugins: the enabled extensions in load order.
get_enabled_plugins ==
    SelectSeq(load_order, LAMBDA id : id \in DOMAIN plugins /\ plugins[id].enabled)

\* update_plugin_state and set_plugin_error are public and have no caller in
\* the program (main.rs, routes/plugins.rs), so Next does not take them.
update_plugin_state(plugin_id, state) ==
    /\ IF plugin_id \notin DOMAIN plugins
       THEN /\ ret' = Result("update_plugin_state", plugin_id, AppError("NotFound"))
            /\ UNCHANGED plugins
       ELSE /\ plugins' = [plugins EXCEPT ![plugin_id].state = state]
            /\ ret' = Result("update_plugin_state", plugin_id, Ok)
    /\ log' = <<>>
    /\ UNCHANGED <<runtimes, config, disk>>
    /\ LifecycleUnchanged

set_plugin_error(plugin_id, error) ==
    /\ IF plugin_id \notin DOMAIN plugins
       THEN /\ ret' = Result("set_plugin_error", plugin_id, AppError("NotFound"))
            /\ UNCHANGED plugins
       ELSE /\ plugins' = [plugins EXCEPT ![plugin_id].last_error = error,
                                          ![plugin_id].state = "Failed"]
            /\ ret' = Result("set_plugin_error", plugin_id, Ok)
    /\ log' = <<>>
    /\ UNCHANGED <<runtimes, config, disk>>
    /\ LifecycleUnchanged

\* A call made on the runner of an extension, and whether it succeeded.
RunnerCall(call, plugin_id, ok) == [call |-> call, id |-> plugin_id, ok |-> ok]

\* The registry as load_plugin and unload_plugin see and leave it, with the
\* runner calls made so far and the result of the last of the two.
Registry == [plugins |-> plugins, runtimes |-> runtimes, log |-> <<>>, result |-> Ok]

\* The registry when load_plugin has passed its early returns: the extension
\* is in Loading while its runner is built and loaded.
Loading(reg, plugin_id) == [reg EXCEPT !.plugins[plugin_id].state = "Loading"]

\* load_plugin whose JavaScript arm returns its error without recording it.
load_plugin_in_unrecorded_failure(reg, plugin_id, load_ok) ==
    IF plugin_id \notin DOMAIN reg.plugins
    THEN [reg EXCEPT !.result = AppError("NotFound")]
    ELSE LET plugin == reg.plugins[plugin_id]
         IN  IF plugin.state = "Loaded" THEN [reg EXCEPT !.result = Ok]
             ELSE IF ~plugin.enabled
             THEN [reg EXCEPT !.result = AppError("InvalidInput")]
             ELSE IF plugin.manifest.plugin_type = "JavaScript"
             THEN [Loading(reg, plugin_id) EXCEPT !.result = AppError("InternalError")]
             ELSE IF load_ok
             THEN [Loading(reg, plugin_id) EXCEPT
                     !.plugins[plugin_id].state = "Loaded",
                     !.plugins[plugin_id].last_error = None,
                     !.runtimes = Insert(@, plugin_id, NewRunner(plugin.manifest)),
                     !.log = Append(@, RunnerCall("load", plugin_id, TRUE)),
                     !.result = Ok]
             ELSE [Loading(reg, plugin_id) EXCEPT
                     !.plugins[plugin_id].state = "Failed",
                     !.plugins[plugin_id].last_error = "load failed",
                     !.log = Append(@, RunnerCall("load", plugin_id, FALSE)),
                     !.result = AppError("InternalError")]

\* load_plugin; load_ok is whether the runner's load() succeeds.
load_plugin_in(reg, plugin_id, load_ok) ==
    IF plugin_id \notin DOMAIN reg.plugins
    THEN [reg EXCEPT !.result = AppError("NotFound")]
    ELSE LET plugin == reg.plugins[plugin_id]
         IN  IF plugin.state = "Loaded" THEN [reg EXCEPT !.result = Ok]
             ELSE IF ~plugin.enabled
             THEN [reg EXCEPT !.result = AppError("InvalidInput")]
             ELSE IF plugin.manifest.plugin_type = "JavaScript"
             THEN [Loading(reg, plugin_id) EXCEPT
                     !.plugins[plugin_id].state = "Failed",
                     !.plugins[plugin_id].last_error =
                         "JavaScript plugins not supported yet",
                     !.result = AppError("InternalError")]
             ELSE IF load_ok
             THEN [Loading(reg, plugin_id) EXCEPT
                     !.plugins[plugin_id].state = "Loaded",
                     !.plugins[plugin_id].last_error = None,
                     !.runtimes = Insert(@, plugin_id, NewRunner(plugin.manifest)),
                     !.log = Append(@, RunnerCall("load", plugin_id, TRUE)),
                     !.result = Ok]
             ELSE [Loading(reg, plugin_id) EXCEPT
                     !.plugins[plugin_id].state = "Failed",
                     !.plugins[plugin_id].last_error = "load failed",
                     !.log = Append(@, RunnerCall("load", plugin_id, FALSE)),
                     !.result = AppError("InternalError")]

\* unload_plugin that returns the error of the runner's unload() to its
\* caller before the state is set.
unload_plugin_in_propagates(reg, plugin_id, unload_ok) ==
    LET removed == IF plugin_id \in DOMAIN reg.runtimes
                   THEN [reg EXCEPT
                           !.runtimes = Remove(@, plugin_id),
                           !.log = Append(@, RunnerCall("unload", plugin_id,
                                                        unload_ok))]
                   ELSE reg
    IN  IF plugin_id \in DOMAIN reg.runtimes /\ ~unload_ok
        THEN [removed EXCEPT !.result = AppError("InternalError")]
        ELSE IF plugin_id \in DOMAIN reg.plugins
        THEN [removed EXCEPT !.plugins[plugin_id].state = "Unloaded",
                             !.result = Ok]
        ELSE [removed EXCEPT !.result = Ok]

\* unload_plugin; unload_ok is whether the runner's unload() succeeds, which
\* the code only logs.
unload_plugin_in(reg, plugin_id, unload_ok) ==
    LET removed == IF plugin_id \in DOMAIN reg.runtimes
                   THEN [reg EXCEPT
                           !.runtimes = Remove(@, plugin_id),
                           !.log = Append(@, RunnerCall("unload", plugin_id,
                                                        unload_ok))]
                   ELSE reg
    IN  IF plugin_id \in DOMAIN reg.plugins
        THEN [removed EXCEPT !.plugins[plugin_id].state = "Unloaded",
                             !.result = Ok]
        ELSE [removed EXCEPT !.result = Ok]

\* The registry after a load, an unload or a reload.
Becomes(op, plugin_id, reg) ==
    /\ plugins' = reg.plugins
    /\ runtimes' = reg.runtimes
    /\ log' = reg.log
    /\ ret' = Result(op, plugin_id, reg.result)
    /\ UNCHANGED <<config, disk>>
    /\ LifecycleUnchanged

load_plugin(plugin_id, load_ok) ==
    Becomes("load_plugin", plugin_id, load_plugin_in(Registry, plugin_id, load_ok))

unload_plugin(plugin_id, unload_ok) ==
    Becomes("unload_plugin", plugin_id,
            unload_plugin_in(Registry, plugin_id, unload_ok))

reload_plugin(plugin_id, unload_ok, load_ok) ==
    Becomes("reload_plugin", plugin_id,
            load_plugin_in(unload_plugin_in(Registry, plugin_id, unload_ok),
                           plugin_id, load_ok))

\* dispatch_event that returns at the first handler error.
dispatch_event_stops_at_error(event_type) ==
    \E order \in Orders(DOMAIN runtimes), failing \in {{}} \cup {{id} : id \in DOMAIN runtimes} :
        LET calls == [i \in DOMAIN order |->
                         RunnerCall("on_event", order[i], order[i] \notin failing)]
            stop == {i \in DOMAIN order : order[i] \in failing}
        IN  /\ log' = IF stop = {} THEN calls
                      ELSE SubSeq(calls, 1, CHOOSE i \in stop : TRUE)
            /\ ret' = Result("dispatch_event", event_type,
                             IF stop = {} THEN Ok ELSE AppError("InternalError"))
            /\ UNCHANGED <<plugins, runtimes, config, disk>>
            /\ LifecycleUnchanged

\* dispatch_event: on_event of every runner in the table, in the table's
\* iteration order; a handler that fails is logged and the loop goes on.
dispatch_event(event_type) ==
    \E order \in Orders(DOMAIN runtimes), failing \in {{}} \cup {{id} : id \in DOMAIN runtimes} :
        /\ log' = [i \in DOMAIN order |->
                      RunnerCall("on_event", order[i], order[i] \notin failing)]
        /\ ret' = Result("dispatch_event", event_type, Ok)
        /\ UNCHANGED <<plugins, runtimes, config, disk>>
        /\ LifecycleUnchanged

(***************************************************************************)
(* Spec: the registry over a plugins directory                             *)
(***************************************************************************)
HostVersion == FormatVersion(<<1, 0, 0>>)

\* p is a Python extension; q is a Wasm extension that depends on p, or a
\* JavaScript one that depends on nothing; three more sub-directories hold no
\* usable manifest.
ManifestP == Manifest("p", HostVersion, Empty, {"Storage"})

ManifestQ(plugin_type, deps) ==
    [Manifest("q", HostVersion, deps, {}) EXCEPT !.plugin_type = plugin_type]

BrokenEntries ==
    {DirEntry(ManifestP, FALSE, FALSE),
     DirEntry(ManifestP, TRUE, FALSE),
     DirEntry([ManifestP EXCEPT !.id = "r", !.name = ""], TRUE, TRUE)}

DirWith(manifestQ) ==
    [exists |-> TRUE,
     entries |-> {DirEntry(ManifestP, TRUE, TRUE), DirEntry(manifestQ, TRUE, TRUE)}
                    \cup BrokenEntries]

DirWasm == DirWith(ManifestQ("Wasm", [d \in {"p"} |-> CaretOne]))

DirJavaScript == DirWith(ManifestQ("JavaScript", Empty))

\* The plugins directory and the configuration file the service starts over:
\* nothing yet, a first run, a configuration that does not parse, and a
\* configuration that enables q alone.
Environments ==
    {<<NoDir, [kind |-> "missing"]>>,
     <<DirWasm, [kind |-> "missing"]>>,
     <<DirJavaScript, [kind |-> "corrupt"]>>,
     <<DirWasm, [kind |-> "json", enabled_plugins |-> {"q"}]>>}

Init ==
    /\ \E env \in Environments : dir = env[1] /\ disk = env[2]
    /\ host_version = HostVersion
    /\ files = Empty
    /\ config = load_config(disk)
    /\ NewRegistry
    /\ inp = NoResult
    /\ out = NoResult

Next ==
    \/ new
    \/ \E io_ok \in BOOLEAN : discover_plugins(io_ok, io_ok)
    \/ resolve_dependencies
    \/ \E id \in ApiIds \cup {UnknownId}, ok \in BOOLEAN : enable_plugin(id, ok)
    \/ \E id \in ApiIds \cup {UnknownId}, ok \in BOOLEAN : disable_plugin(id, ok)
    \/ \E id \in ApiIds \cup {UnknownId}, ok \in BOOLEAN : load_plugin(id, ok)
    \/ \E id \in ApiIds \cup {UnknownId}, ok \in BOOLEAN : unload_plugin(id, ok)
    \/ \E id \in ApiIds \cup {UnknownId}, ok \in BOOLEAN : reload_plugin(id, ok, ok)
    \/ dispatch_event("FileSave")

Spec == Init /\ [][Next]_vars

\* C10: disable_plugin on an extension in state Loaded unloads its runner
\* first: unload() is called on the runner and the runner leaves the runtime
\* table, the extension ends in state Disabled, and no event dispatched later
\* is delivered to a disabled extension.
C10_DisableUnloadsRunner ==
    [][/\ (/\ ret'.op = "disable_plugin"
           /\ ret'.id \in DOMAIN plugins
           /\ plugins[ret'.id].enabled
           /\ plugins[ret'.id].state = "Loaded")
          => /\ ret'.id \notin DOMAIN runtimes'
             /\ \E i \in DOMAIN log' :
                   log'[i].call = "unload" /\ log'[i].id = ret'.id
             /\ plugins'[ret'.id].state = "Disabled"
       /\ ret'.op = "dispatch_event"
          => \A i \in DOMAIN log' : plugins'[log'[i].id].enabled]_vars

\* C11: after any sequence of discover, enable, disable, load, unload and
\* reload calls, every extension whose enabled flag is false is in state
\* Disabled.
C11_NotEnabledIsDisabled ==
    \A id \in DOMAIN plugins : ~plugins[id].enabled => plugins[id].state = "Disabled"

\* The extensions a persisted enabled-set leaves out: once a decision was
\* written, an id missing from it was disabled (or never enabled) by the user.
PersistedDisabled(d) ==
    IF d.kind = "json" THEN {id \in ApiIds : id \notin d.enabled_plugins} ELSE {}

\* C12: discovery auto-enables only on a fresh install; once an enabled-set
\* was persisted, no discovery (after a restart or not) adds to the enabled
\* extensions one that the persisted set leaves out, also when it leaves out
\* every one.
C12_DiscoveryKeepsDisabled ==
    [][ret'.op = "discover_plugins" =>
          \A id \in PersistedDisabled(disk) \cap DOMAIN plugins' :
              plugins'[id].enabled => id \in config]_vars

\* The enabled-set a restart would read from the file.
Persisted == load_config(disk)

\* C13: after a successful enable_plugin or disable_plugin on a discovered
\* extension the persisted enabled-set holds its id exactly when the call was
\* enable_plugin, and holds every other id as before; so the set follows the
\* last call on each id, and the same call made twice leaves it as the first
\* call did.
C13_PersistedFollowsLastCall ==
    [][(/\ ret'.op \in {"enable_plugin", "disable_plugin"}
        /\ ret'.result.ok
        /\ ret'.id \in DOMAIN plugins)
          => /\ ret'.id \in load_config(disk') <=> ret'.op = "enable_plugin"
             /\ load_config(disk') \ {ret'.id} = load_config(disk) \ {ret'.id}]_vars

\* C14: constructing the registry over a missing or an unparsable enabled-set
\* file succeeds with an empty enabled set and an empty registry, and the
\* discovery that follows the construction takes the fresh-install path: it
\* enables every extension it registers.
C14_MissingOrCorruptIsFresh ==
    /\ (disk.kind # "json" => config = {} /\ plugins = Empty)
    /\ [][/\ (ret'.op = "new" /\ disk.kind # "json")
              => ret'.result.ok /\ config' = {} /\ plugins' = Empty
          /\ (/\ ret'.op = "discover_plugins"
              /\ ret.op \in {"none", "new"}
              /\ disk.kind # "json"
              /\ dir.exists)
              => /\ ret'.result.ok
                 /\ config' = DOMAIN plugins'
                 /\ \A id \in DOMAIN plugins' :
                       plugins'[id].enabled /\ plugins'[id].state = "Unloaded"]_vars

\* A restart over a file that does not parse, then a discovery that enabled
\* both extensions and could not write the file.
C14_Witness ==
    /\ ret.op = "discover_plugins"
    /\ disk.kind = "corrupt"
    /\ DOMAIN plugins = {"p", "q"}
    /\ config = {"p", "q"}
    /\ plugins["p"].enabled /\ plugins["q"].enabled

\* C15: a load_plugin call that passed its early returns (the extension is
\* known, not Loaded, enabled) and so moved the extension into Loading returns
\* with it either Loaded, last_error cleared and its runner in the runtime
\* table, or Failed, last_error populated and the runtime table as before;
\* no operation returns leaving an extension in Loading.
C15_LoadEndsLoadedOrFailed ==
    /\ [](\A id \in DOMAIN plugins : plugins[id].state # "Loading")
    /\ [][(/\ ret'.op = "load_plugin"
            /\ ret'.id \in DOMAIN plugins
            /\ plugins[ret'.id].state # "Loaded"
            /\ plugins[ret'.id].enabled)
              => \/ /\ ret'.result.ok
                    /\ plugins'[ret'.id].state = "Loaded"
                    /\ plugins'[ret'.id].last_error = None
                    /\ ret'.id \in DOMAIN runtimes'
                 \/ /\ ~ret'.result.ok
                    /\ plugins'[ret'.id].state = "Failed"
                    /\ plugins'[ret'.id].last_error # None
                    /\ runtimes' = runtimes]_vars

\* load_plugin of the JavaScript extension q has returned its error.
C15_Witness ==
    /\ ret = Result("load_plugin", "q", AppError("InternalError"))
    /\ plugins["q"].manifest.plugin_type = "JavaScript"
    /\ plugins["q"].state = "Failed"
    /\ plugins["q"].last_error = "JavaScript plugins not supported yet"
    /\ "q" \notin DOMAIN runtimes

\* The transitions of the lifecycle state, and the operation that may make
\* the two that involve Disabled.
SpecifiedTransition(from, to, op) ==
    \/ <<from, to>> \in {<<"Unloaded", "Loading">>, <<"Loading", "Loaded">>,
                         <<"Loading", "Failed">>, <<"Loaded", "Unloaded">>,
                         <<"Failed", "Loading">>}
    \/ to = "Disabled" /\ op = "disable_plugin"
    \/ from = "Disabled" /\ to = "Unloaded" /\ op = "enable_plugin"

\* Whether load_plugin on the registry reg passes its early returns.
StartsLoading(reg, id) ==
    /\ id \in DOMAIN reg.plugins
    /\ reg.plugins[id].state # "Loaded"
    /\ reg.plugins[id].enabled

\* The states the extension id goes through in one step of the operation op,
\* assignment by assignment, from its state before to its state after.
StatePath(op, id) ==
    LET before == plugins[id].state
        after == plugins'[id].state
        unloaded == unload_plugin_in(Registry, id, TRUE)
    IN  IF op = "load_plugin" /\ StartsLoading(Registry, id)
        THEN <<before, Loading(Registry, id).plugins[id].state, after>>
        ELSE IF op = "reload_plugin" /\ StartsLoading(unloaded, id)
        THEN <<before, unloaded.plugins[id].state,
               Loading(unloaded, id).plugins[id].state, after>>
        ELSE IF op = "reload_plugin"
        THEN <<before, unloaded.plugins[id].state, after>>
        ELSE <<before, after>>

\* C16: every change of an extension's state made by load_plugin,
\* unload_plugin, reload_plugin, enable_plugin or disable_plugin is one of
\* the specified transitions.
C16_OnlySpecifiedTransitions ==
    [][(/\ ret'.op \in {"load_plugin", "unload_plugin", "reload_plugin",
                        "enable_plugin", "disable_plugin"}
        /\ ret'.id \in DOMAIN plugins)
          => LET path == StatePath(ret'.op, ret'.id)
             IN  \A i \in 1..(Len(path) - 1) :
                     \/ path[i] = path[i + 1]
                     \/ SpecifiedTransition(path[i], path[i + 1], ret'.op)]_vars

\* C17: enable_plugin on a disabled extension sets its state to Unloaded and
\* calls no runner, and it leaves the extension without a runner in the
\* runtime table, which is what dispatch_event delivers to.
C17_EnableDoesNotLoad ==
    [][(/\ ret'.op = "enable_plugin"
        /\ ret'.id \in DOMAIN plugins
        /\ ~plugins[ret'.id].enabled)
          => /\ plugins'[ret'.id].state = "Unloaded"
             /\ log' = <<>>
             /\ ret'.id \notin DOMAIN runtimes']_vars

(***************************************************************************)
(* SpecStartup: the startup sequence of main                               *)
(***************************************************************************)
\* The loop of the startup task over enabled_ids: load_plugin of each id in
\* turn, an error being logged and the loop going on. failing holds the
\* extensions whose runner's load() fails; attempts collects the ids
\* load_plugin was called with, failed those for which it returned an error.
RECURSIVE load_each(_, _, _)
load_each(ids, done, failing) ==
    IF ids = <<>> THEN done
    ELSE LET id == Head(ids)
             reg == load_plugin_in(done.reg, id, id \notin failing)
         IN  load_each(Tail(ids),
                       [reg |-> reg,
                        attempts |-> Append(done.attempts, id),
                        failed |-> IF reg.result.ok THEN done.failed
                                   ELSE done.failed \cup {id}],
                       failing)

\* The task main spawns: under the registry write lock, the ids of
\* get_enabled_plugins, then load_plugin of each.
load_enabled_plugins ==
    \E failing \in SUBSET DOMAIN plugins :
        LET enabled_ids == get_enabled_plugins
            done == load_each(enabled_ids,
                              [reg |-> Registry, attempts |-> <<>>, failed |-> {}],
                              failing)
        IN  /\ plugins' = done.reg.plugins
            /\ runtimes' = done.reg.runtimes
            /\ log' = done.reg.log
            /\ ret' = [op |-> "load_enabled_plugins", id |-> None, result |-> Ok,
                       attempts |-> done.attempts, failed |-> done.failed,
                       failing |-> failing]
            /\ UNCHANGED <<config, disk>>
            /\ LifecycleUnchanged

\* main: discover_plugins, then resolve_dependencies, then the loading task;
\* an error of the first two is logged and the sequence goes on.
main_discover ==
    /\ ret.op = "none"
    /\ \E io_ok \in BOOLEAN : discover_plugins(io_ok, io_ok)

main_resolve ==
    /\ ret.op = "discover_plugins"
    /\ resolve_dependencies

main_load ==
    /\ ret.op = "resolve_dependencies"
    /\ load_enabled_plugins

\* The plugins directory at startup: a, whose version may be one that ^1.0.0
\* does not accept; b, which may depend on a; and c, which may have no valid
\* manifest, be a JavaScript extension, or depend on an extension that is not
\* installed, on itself or on b.
StartupDirs ==
    {[exists |-> TRUE,
      entries |-> {DirEntry(Manifest("a", va, Empty, {}), TRUE, TRUE),
                   DirEntry(Manifest("b", HostVersion, depsB, {}), TRUE, TRUE),
                   DirEntry([Manifest("c", HostVersion, depsC, {})
                                EXCEPT !.plugin_type = typeC], TRUE, validC)}] :
        va \in InstalledVersions,
        depsB \in {Empty, [d \in {"a"} |-> CaretOne]},
        depsC \in {Empty} \cup {[d \in {on} |-> CaretOne] : on \in {UnknownId, "c", "b"}},
        typeC \in {"Python", "JavaScript"},
        validC \in BOOLEAN}

StartupDisks ==
    {[kind |-> "missing"],
     [kind |-> "json", enabled_plugins |-> {"a", "b"}],
     [kind |-> "json", enabled_plugins |-> {"b", "c"}]}

InitStartup ==
    /\ dir \in StartupDirs
    /\ disk \in StartupDisks
    /\ host_version = HostVersion
    /\ files = Empty
    /\ config = load_config(disk)
    /\ NewRegistry
    /\ inp = NoResult
    /\ out = NoResult

NextStartup == main_discover \/ main_resolve \/ main_load

SpecStartup == InitStartup /\ [][NextStartup]_vars

\* An extension that misbehaves: its dependency declarations are cyclic, name
\* an extension that is not installed or a version that is not met, or its
\* load fails. (One with an invalid manifest is not registered at all.)
Misbehaving(id) ==
    \/ OnCycle(id)
    \/ ~(DOMAIN Dependencies(id) \subseteq DOMAIN plugins)
    \/ \E d \in DOMAIN plugins : Unmet(id, d)
    \/ id \in ret.failing
    \/ plugins[id].manifest.plugin_type = "JavaScript"

\* C18: at the end of the startup sequence every enabled extension that does
\* not misbehave and depends on no misbehaving one, directly or transitively,
\* is loaded.
C18_PeersStillLoaded ==
    ret.op = "load_enabled_plugins" =>
        \A id \in DOMAIN plugins :
            (/\ plugins[id].enabled
             /\ \A d \in {id} \cup Reachable(id) : ~Misbehaving(d))
                => plugins[id].state = "Loaded" /\ id \in DOMAIN runtimes

\* C19: when the resolution succeeded, the loading task calls load_plugin
\* exactly once for each enabled extension and for no other, in the resolved
\* order, an enabled dependency before its dependents, and goes on after a
\* load that failed.
C19_LoadsEnabledInOrder ==
    [][(/\ ret.op = "resolve_dependencies"
        /\ ret.result.ok
        /\ ret'.op = "load_enabled_plugins")
          => LET attempts == ret'.attempts
                 enabled == {id \in DOMAIN plugins : plugins[id].enabled}
             IN  /\ {attempts[i] : i \in DOMAIN attempts} = enabled
                 /\ Len(attempts) = Cardinality(enabled)
                 /\ \A i, j \in DOMAIN attempts :
                       i < j => Position(load_order, attempts[i])
                                   < Position(load_order, attempts[j])
                 /\ \A e \in Edges :
                       (e[1] \in enabled /\ e[2] \in enabled)
                          => Position(attempts, e[2]) < Position(attempts, e[1])]_vars

\* The load of a failed, and b, which depends on a, and c were attempted after
\* it; c, which is disabled in no way, is loaded.
C19_Witness ==
    /\ ret.op = "load_enabled_plugins"
    /\ ret.attempts = <<"a", "b", "c">>
    /\ ret.failed = {"a"}
    /\ "a" \in DOMAIN Dependencies("b")
    /\ plugins["a"].state = "Failed"
    /\ plugins["c"].state = "Loaded"

(***************************************************************************)
(* SpecConcurrent: load requests on the shared Arc<RwLock<PluginService>>  *)
(***************************************************************************)
\* Two tasks, each doing what the loading task of main does for one id:
\* ps.write().await, then ps.load_plugin(&id).await, then the guard is dropped.
LoadTasks == {"t1", "t2"}

\* A task before it asks for the lock.
NewTask(id) == [pc |-> "start", id |-> id, ran_load |-> FALSE, result |-> NoResult]

\* A write lock that is handed out whatever holds it.
write_lock_always_free(tk) == TRUE

\* RwLock::write is granted when no other guard is alive, of a writer or of
\* a reader.
write_lock_free(tk) == tk.writer = None /\ tk.readers = {}

ConcurrentUnchanged ==
    UNCHANGED <<dir, host_version, disk, files, load_order, config, event_bus,
                storage, inp, out>>

\* ps_clone.write().await returns the guard; served keeps the order in which
\* the lock was granted.
acquire_write(t) ==
    /\ tasks.at[t].pc = "start"
    /\ write_lock_free(tasks)
    /\ tasks' = [tasks EXCEPT !.writer = t,
                              !.at[t].pc = "locked",
                              !.served = Append(@, t)]
    /\ UNCHANGED <<plugins, runtimes, ret, log>>
    /\ ConcurrentUnchanged

\* load_plugin up to runtime.load().await: an early return or the JavaScript
\* arm returns at once; otherwise the extension is in Loading, the runner is
\* built and its load() is executing.
load_plugin_begin(t) ==
    /\ tasks.at[t].pc = "locked"
    /\ LET id == tasks.at[t].id
       IN  IF StartsLoading(Registry, id)
              /\ plugins[id].manifest.plugin_type # "JavaScript"
           THEN /\ plugins' = Loading(Registry, id).plugins
                /\ tasks' = [tasks EXCEPT !.at[t].pc = "in_load",
                                          !.at[t].ran_load = TRUE]
                /\ UNCHANGED <<runtimes, ret, log>>
           ELSE LET reg == load_plugin_in(Registry, id, TRUE)
                IN  /\ plugins' = reg.plugins
                    /\ runtimes' = reg.runtimes
                    /\ log' = reg.log
                    /\ ret' = Result("load_plugin", id, reg.result)
                    /\ tasks' = [tasks EXCEPT !.at[t].pc = "returned",
                                              !.at[t].result = reg.result]
    /\ ConcurrentUnchanged

\* runtime.load() returns and load_plugin records the outcome.
load_plugin_end(t, load_ok) ==
    /\ tasks.at[t].pc = "in_load"
    /\ LET id == tasks.at[t].id
           reg == load_plugin_in(Registry, id, load_ok)
       IN  /\ plugins' = reg.plugins
           /\ runtimes' = reg.runtimes
           /\ log' = reg.log
           /\ ret' = Result("load_plugin", id, reg.result)
           /\ tasks' = [tasks EXCEPT !.at[t].pc = "returned",
                                     !.at[t].result = reg.result]
    /\ ConcurrentUnchanged

\* The guard goes out of scope.
release_write(t) ==
    /\ tasks.at[t].pc = "returned"
    /\ tasks' = [tasks EXCEPT !.writer = None, !.at[t].pc = "done"]
    /\ UNCHANGED <<plugins, runtimes, ret, log>>
    /\ ConcurrentUnchanged

\* The registry after discovery, nothing loaded: p may be disabled, q is a
\* Wasm or a JavaScript extension; each task asks for p or for q.
InitConcurrent ==
    /\ \E enabledP \in BOOLEAN, typeQ \in {"Wasm", "JavaScript"} :
          /\ plugins = [id \in ApiIds |->
                           IF id = "p" THEN NewPlugin(ManifestP, enabledP)
                           ELSE NewPlugin(ManifestQ(typeQ, Empty), TRUE)]
          /\ dir = DirWith(ManifestQ(typeQ, Empty))
    /\ config = {id \in ApiIds : plugins[id].enabled}
    /\ disk = [kind |-> "json", enabled_plugins |-> config]
    /\ host_version = HostVersion
    /\ files = Empty
    /\ runtimes = Empty
    /\ load_order = <<>>
    /\ event_bus = NewEventBus
    /\ storage = Empty
    /\ ret = NoResult
    /\ log = <<>>
    /\ inp = NoResult
    /\ out = NoResult
    /\ \E ids \in [LoadTasks -> ApiIds] :
          tasks = [writer |-> None, readers |-> {},
                   at |-> [t \in LoadTasks |-> NewTask(ids[t])],
                   served |-> <<>>]

NextConcurrent ==
    \E t \in LoadTasks :
        \/ acquire_write(t)
        \/ load_plugin_begin(t)
        \/ \E load_ok \in BOOLEAN : load_plugin_end(t, load_ok)
        \/ release_write(t)

SpecConcurrent == InitConcurrent /\ [][NextConcurrent]_vars

\* The task t has returned from load_plugin.
HasReturned(t) == tasks.at[t].pc \in {"returned", "done"}

\* C20: two load_plugin requests for the same extension run one after the
\* other: the load() of its runner is never executing in two tasks at once,
\* and when the request served first succeeded, the second returns success
\* without building or loading a runner, the one runner being in the table.
C20_LoadRequestsSerialize ==
    \A t1, t2 \in DOMAIN tasks.at :
        (t1 # t2 /\ tasks.at[t1].id = tasks.at[t2].id) =>
            /\ ~(tasks.at[t1].pc = "in_load" /\ tasks.at[t2].pc = "in_load")
            /\ (/\ HasReturned(t1) /\ HasReturned(t2)
                /\ tasks.served = <<t1, t2>>
                /\ tasks.at[t1].result.ok)
                  => /\ tasks.at[t2].result.ok
                     /\ tasks.at[t1].ran_load
                     /\ ~tasks.at[t2].ran_load
                     /\ tasks.at[t1].id \in DOMAIN runtimes

\* Both tasks asked for p; t1 was served first and loaded it, t2 returned Ok
\* without a second load.
C20_Witness ==
    /\ tasks.served = <<"t1", "t2">>
    /\ tasks.at["t1"] = [pc |-> "done", id |-> "p", ran_load |-> TRUE, result |-> Ok]
    /\ tasks.at["t2"] = [pc |-> "done", id |-> "p", ran_load |-> FALSE, result |-> Ok]
    /\ plugins["p"].state = "Loaded"
    /\ DOMAIN runtimes = {"p"}

(***************************************************************************)
(* Network operations                                                      *)
(***************************************************************************)
\* C26: http_get and http_post never return a success value: with the
\* Network capability they fail with the explicit not-implemented error,
\* without it with Forbidden (the permission check comes first).
C26_NetworkUnimplemented ==
    ret.op \in {"http_get", "http_post"} =>
        /\ ~ret.result.ok
        /\ ret.value = NoValue
        /\ ret.result = IF "Network" \in runtimes[ret.by].api.capabilities
                        THEN HttpNotImplemented
                        ELSE Forbidden(ret.by, "Network")

\* q, granted Network, is answered not-implemented by http_post.
C26_Witness ==
    /\ ret.op = "http_post"
    /\ ret.by = "q"
    /\ "Network" \in runtimes["q"].api.capabilities
    /\ ret.result = HttpNotImplemented

(***************************************************************************)
(* EventBus on its own: subscribe, unsubscribe and emit in any order       *)
(***************************************************************************)
\* The number of subscribe and unsubscribe calls of a run.
MaxBusCalls == 5

BusCallback == [owner |-> "p"]

\* In this specification inp is the record of the subscribe and unsubscribe
\* calls made so far, each subscribe with the id it returned.
BusUnchanged ==
    UNCHANGED <<dir, host_version, disk, files, plugins, runtimes, load_order,
                config, storage, out, tasks>>

subscribe(event_type, callback) ==
    /\ Len(inp) < MaxBusCalls
    /\ event_bus' = EventBus_subscribe(event_bus, event_type, callback)
    /\ ret' = [op |-> "subscribe", event_type |-> event_type,
               id |-> event_bus'.subscribers[event_type]
                          [Len(event_bus'.subscribers[event_type])].id]
    /\ inp' = Append(inp, ret')
    /\ log' = <<>>
    /\ BusUnchanged

unsubscribe(subscription_id) ==
    /\ Len(inp) < MaxBusCalls
    /\ event_bus' = EventBus_unsubscribe(event_bus, subscription_id)
    /\ ret' = [op |-> "unsubscribe", id |-> subscription_id, result |-> Ok]
    /\ inp' = Append(inp, ret')
    /\ log' = <<>>
    /\ BusUnchanged

emit(event) ==
    /\ log' = EventBus_emit(event_bus, event)
    /\ ret' = [op |-> "emit", event_type |-> event.event_type]
    /\ UNCHANGED <<event_bus, inp>>
    /\ BusUnchanged

InitBus ==
    /\ NewRegistry
    /\ NoEnvironment
    /\ inp = <<>>
    /\ out = NoResult

NextBus ==
    \/ \E t \in BusTypes : subscribe(t, BusCallback)
    \/ \E id \in 0..event_bus.next_id : unsubscribe(id)
    \/ \E e \in BusEvents : emit(e)

SpecBus == InitBus /\ [][NextBus]_vars

\* The subscriptions that are live after the calls of h: those made and not
\* unsubscribed since, in the order in which they were made.
RECURSIVE LiveAfter(_)
LiveAfter(h) ==
    IF h = <<>> THEN <<>>
    ELSE LET before == LiveAfter(SubSeq(h, 1, Len(h) - 1))
             last == h[Len(h)]
         IN  IF last.op = "subscribe" THEN Append(before, last)
             ELSE SelectSeq(before, LAMBDA sub : sub.id # last.id)

Ids(subs) == [i \in 1..Len(subs) |-> subs[i].id]

IdSet(subs) == {subs[i].id : i \in 1..Len(subs)}

\* C23: emit invokes every callback currently subscribed to the emitted
\* event's type exactly once, in the order in which the subscriptions were
\* made, and no callback subscribed to another type; unsubscribing one
\* subscription keeps the relative order of the remaining ones.
C23_EmitInSubscriptionOrder ==
    [][/\ ret'.op = "emit" =>
            /\ Ids(log') = Ids(SelectSeq(LiveAfter(inp),
                                LAMBDA sub : sub.event_type = ret'.event_type))
            /\ \A i \in 1..Len(log') : log'[i].event.event_type = ret'.event_type
       /\ ret'.op = "unsubscribe" =>
            \A t \in DOMAIN event_bus.subscribers :
                event_bus'.subscribers[t] =
                    SelectSeq(event_bus.subscribers[t],
                              LAMBDA sub : sub.id \in IdSet(event_bus'.subscribers[t]))]_vars

\* Of three subscriptions to PluginMessage and one to ShowNotice, the second
\* to PluginMessage was unsubscribed; an emitted PluginMessage reaches the
\* first and the third, in that order.
C23_Witness ==
    /\ ret.op = "emit"
    /\ ret.event_type = "PluginMessage"
    /\ Len(log) = 2
    /\ log[1].id < log[2].id
    /\ Len(Subscribers(event_bus, "ShowNotice")) = 1
    /\ \E i \in 1..Len(inp) :
          /\ inp[i].op = "unsubscribe"
          /\ log[1].id < inp[i].id
          /\ inp[i].id < log[2].id

\* C24: unsubscribe with an id that matches no live subscription (never
\* issued, or already unsubscribed) returns without error and leaves every
\* event type's subscriber list unchanged, so unsubscribing an id twice has
\* the effect of unsubscribing it once.
C24_UnknownUnsubscribeIsNoop ==
    [][ret'.op = "unsubscribe" =>
          /\ ret'.result = Ok
          /\ ret'.id \notin IdSet(LiveAfter(inp)) =>
                 event_bus'.subscribers = event_bus.subscribers]_vars

\* An id is unsubscribed a second time while other subscriptions are live.
C24_Witness ==
    /\ ret.op = "unsubscribe"
    /\ Len(inp) >= 3
    /\ \E i \in 1..(Len(inp) - 1) : inp[i] = ret
    /\ \E i \in 1..(Len(inp) - 1) : inp[i].op = "subscribe" /\ inp[i].id = ret.id
    /\ LiveAfter(inp) # <<>>

\* C25: every id returned by subscribe differs from every id the bus returned
\* before, across all event types and including ids since unsubscribed, so
\* unsubscribe(id) removes at most one subscription.
C25_FreshSubscriptionIds ==
    /\ [](\A i, j \in 1..Len(inp) :
            (i < j /\ inp[i].op = "subscribe" /\ inp[j].op = "subscribe")
                => inp[i].id # inp[j].id)
    /\ [][ret'.op = "unsubscribe" =>
            LET count(bus) ==
                    Cardinality({x \in (DOMAIN bus.subscribers) \X (1..MaxBusCalls) :
                                    x[2] <= Len(bus.subscribers[x[1]])})
            IN  count(event_bus') >= count(event_bus) - 1]_vars

\* A subscription made after another of the same type was unsubscribed, and
\* one of another type, all with different ids.
C25_Witness ==
    /\ ret.op = "subscribe"
    /\ Len(inp) >= 4
    /\ \E i, j, k \in 1..(Len(inp) - 1) :
          /\ i < j
          /\ inp[i].op = "subscribe" /\ inp[i].event_type = ret.event_type
          /\ inp[j].op = "unsubscribe" /\ inp[j].id = inp[i].id
          /\ inp[k].op = "subscribe" /\ inp[k].event_type # ret.event_type

(***************************************************************************)
(* PluginRuntime: the runners of the two execution kinds                   *)
(***************************************************************************)
Hooks == {"on_load", "on_unload", "on_event"}

\* What the extension's entry file holds: the hooks it provides (exported
\* functions of a WebAssembly module, attributes of a Python module) and
\* those among them that fail when called.
Extension(plugin_type, provides, raises) ==
    [plugin_type |-> plugin_type, provides |-> provides, raises |-> raises]

\* WasmPluginRunner::new / PythonPluginRunner::new: nothing is held yet
\* (runtime: None, module: None).
NewRuntime(extension) == [extension |-> extension, held |-> FALSE]

HookCall(hook) == [call |-> hook]

Release == [call |-> "release"]

RuntimeDone(runner, result, calls) ==
    [runner |-> runner, result |-> result, calls |-> calls]

\* WasmPluginRunner::load: build the instance, call on_load when exported,
\* keep the store and the instance.
WasmPluginRunner_load(runner, instantiate_ok) ==
    LET ext == runner.extension
    IN  IF ~instantiate_ok
        THEN RuntimeDone(runner, AppError("InternalError"), <<>>)
        ELSE IF "on_load" \in ext.provides /\ "on_load" \in ext.raises
        THEN RuntimeDone(runner, AppError("InternalError"), <<HookCall("on_load")>>)
        ELSE RuntimeDone([runner EXCEPT !.held = TRUE], Ok,
                         IF "on_load" \in ext.provides
                         THEN <<HookCall("on_load")>> ELSE <<>>)

\* WasmPluginRunner::unload: self.runtime = None.
WasmPluginRunner_unload(runner) ==
    RuntimeDone([runner EXCEPT !.held = FALSE], Ok,
                IF runner.held THEN <<Release>> ELSE <<>>)

\* WasmPluginRunner::on_event: locks the runtime state and does nothing.
WasmPluginRunner_on_event(runner, event) == RuntimeDone(runner, Ok, <<>>)

\* PythonPluginRunner::load: import the module, call on_load when it has
\* one, keep the module.
PythonPluginRunner_load(runner, import_ok) ==
    LET ext == runner.extension
    IN  IF ~import_ok
        THEN RuntimeDone(runner, AppError("InternalError"), <<>>)
        ELSE IF "on_load" \in ext.provides /\ "on_load" \in ext.raises
        THEN RuntimeDone(runner, AppError("InternalError"), <<HookCall("on_load")>>)
        ELSE RuntimeDone([runner EXCEPT !.held = TRUE], Ok,
                         IF "on_load" \in ext.provides
                         THEN <<HookCall("on_load")>> ELSE <<>>)

\* PythonPluginRunner::unload: call on_unload when the module has one, then
\* self.module = None. A failing hook returns before the module is dropped.
PythonPluginRunner_unload(runner) ==
    LET ext == runner.extension
    IN  IF ~runner.held THEN RuntimeDone(runner, Ok, <<>>)
        ELSE IF "on_unload" \notin ext.provides
        THEN RuntimeDone([runner EXCEPT !.held = FALSE], Ok, <<Release>>)
        ELSE IF "on_unload" \in ext.raises
        THEN RuntimeDone(runner, AppError("InternalError"), <<HookCall("on_unload")>>)
        ELSE RuntimeDone([runner EXCEPT !.held = FALSE], Ok,
                         <<HookCall("on_unload"), Release>>)

\* PythonPluginRunner::on_event: call on_event with the event as JSON text
\* when the module is held and has the hook.
PythonPluginRunner_on_event(runner, event) ==
    LET ext == runner.extension
    IN  IF ~runner.held \/ "on_event" \notin ext.provides
        THEN RuntimeDone(runner, Ok, <<>>)
        ELSE RuntimeDone(runner,
                         IF "on_event" \in ext.raises
                         THEN AppError("InternalError") ELSE Ok,
                         <<[call |-> "on_event", event |-> event]>>)

\* The PluginRuntime trait object: the call goes to the runner's kind.
PluginRuntime_load(runner, load_ok) ==
    IF runner.extension.plugin_type = "Wasm"
    THEN WasmPluginRunner_load(runner, load_ok)
    ELSE PythonPluginRunner_load(runner, load_ok)

PluginRuntime_unload(runner) ==
    IF runner.extension.plugin_type = "Wasm"
    THEN WasmPluginRunner_unload(runner)
    ELSE PythonPluginRunner_unload(runner)

PluginRuntime_on_event(runner, event) ==
    IF runner.extension.plugin_type = "Wasm"
    THEN WasmPluginRunner_on_event(runner, event)
    ELSE PythonPluginRunner_on_event(runner, event)

\* In this specification runtimes holds one runner, of the extension p.
RuntimeUnchanged ==
    UNCHANGED <<dir, host_version, disk, files, plugins, load_order, config,
                event_bus, storage, inp, out, tasks>>

Runs(op, done) ==
    /\ runtimes' = [runtimes EXCEPT !["p"] = done.runner]
    /\ ret' = [op |-> op, result |-> done.result]
    /\ log' = done.calls
    /\ RuntimeUnchanged

runtime_load(load_ok) == Runs("load", PluginRuntime_load(runtimes["p"], load_ok))

runtime_unload == Runs("unload", PluginRuntime_unload(runtimes["p"]))

runtime_on_event(event) ==
    Runs("on_event", PluginRuntime_on_event(runtimes["p"], event))

RunnerKinds == {"Wasm", "Python"}

Extensions ==
    {Extension(plugin_type, provides, raises) :
        plugin_type \in RunnerKinds, provides \in SUBSET Hooks,
        raises \in {{}, {"on_unload"}, {"on_event"}}}

InitRuntime ==
    /\ \E ext \in {e \in Extensions : e.raises \subseteq e.provides} :
          runtimes = [id \in {"p"} |-> NewRuntime(ext)]
    /\ plugins = Empty
    /\ load_order = <<>>
    /\ event_bus = NewEventBus
    /\ storage = Empty
    /\ ret = NoResult
    /\ tasks = NoTasks
    /\ log = <<>>
    /\ NoEnvironment
    /\ inp = NoResult
    /\ out = NoResult

NextRuntime ==
    \/ \E load_ok \in BOOLEAN : runtime_load(load_ok)
    \/ runtime_unload
    \/ \E e \in BusEvents : runtime_on_event(e)

SpecRuntime == InitRuntime /\ [][NextRuntime]_vars

\* C27: for both execution kinds, unload() of a runner that holds its
\* extension invokes the extension's unload hook when the extension provides
\* one, before the runner's resources are released, and at most once.
C27_UnloadInvokesHook ==
    [][(ret'.op = "unload" /\ runtimes["p"].held) =>
          LET provided == "on_unload" \in runtimes["p"].extension.provides
              hook == {i \in 1..Len(log') : log'[i] = HookCall("on_unload")}
              released == {i \in 1..Len(log') : log'[i] = Release}
          IN  /\ Cardinality(hook) = IF provided THEN 1 ELSE 0
              /\ \A i \in hook, j \in released : i < j]_vars

\* C28: for both execution kinds, handle-event on a loaded runner delivers
\* the event to the extension's event hook exactly once when the extension
\* provides the hook, and is a successful no-op when it does not or when
\* the runner is not loaded.
C28_EventReachesHook ==
    [][ret'.op = "on_event" =>
          LET runner == runtimes["p"]
              delivered == {i \in 1..Len(log') : log'[i].call = "on_event"}
          IN  IF runner.held /\ "on_event" \in runner.extension.provides
              THEN Cardinality(delivered) = 1
              ELSE log' = <<>> /\ ret'.result = Ok /\ runtimes' = runtimes]_vars

(***************************************************************************)
(* SpecManifest: discovery and loading of extensions of every execution    *)
(* kind, stated in the manifest or left out of it                          *)
(***************************************************************************)
\* The manifest text without its plugin_type entry.
OmitKind(manifest) == [f \in (DOMAIN manifest) \ {"plugin_type"} |-> manifest[f]]

ManifestTexts(id) ==
    {[Manifest(id, HostVersion, Empty, {}) EXCEPT !.plugin_type = k] : k \in PluginTypes}
        \cup {OmitKind(Manifest(id, HostVersion, Empty, {}))}

InitManifest ==
    /\ \E mp \in ManifestTexts("p"), mq \in ManifestTexts("q") :
          dir = [exists |-> TRUE,
                 entries |-> {DirEntry(mp, TRUE, TRUE), DirEntry(mq, TRUE, TRUE)}]
    /\ disk = [kind |-> "missing"]
    /\ host_version = HostVersion
    /\ files = Empty
    /\ config = load_config(disk)
    /\ NewRegistry
    /\ inp = NoResult
    /\ out = NoResult

NextManifest ==
    \/ discover_plugins(TRUE, TRUE)
    \/ \E id \in ApiIds, ok \in BOOLEAN : load_plugin(id, ok)
    \/ \E id \in ApiIds : unload_plugin(id, TRUE)

SpecManifest == InitManifest /\ [][NextManifest]_vars

KindOmitted(id) ==
    \E e \in dir.entries :
        /\ e.has_manifest /\ e.parses
        /\ e.manifest.id = id
        /\ "plugin_type" \notin DOMAIN e.manifest

\* C29: a manifest that omits the execution kind is given the
\* embedded-interpreter kind, so load_plugin of such an enabled extension
\* hands it to the embedded-interpreter runner and does not put it in Failed
\* for having an unsupported kind.
C29_OmittedKindIsPython ==
    /\ [](\A id \in DOMAIN plugins :
            KindOmitted(id) => plugins[id].manifest.plugin_type = "Python")
    /\ [][(/\ ret'.op = "load_plugin"
           /\ ret'.id \in DOMAIN plugins
           /\ KindOmitted(ret'.id)
           /\ plugins[ret'.id].enabled
           /\ plugins[ret'.id].state # "Loaded")
          => /\ \E i \in 1..Len(log') :
                    log'[i].call = "load" /\ log'[i].id = ret'.id
             /\ plugins'[ret'.id].last_error
                    # "JavaScript plugins not supported yet"]_vars

(***************************************************************************)
(* Determinism of the resolution                                           *)
(***************************************************************************)
\* What resolve_dependencies returns when the registry map iterates in the
\* order keys and the dependency maps in the orders depOrder.
ResolutionUnder(keys, depOrder) ==
    LET st == visit_all(keys,
                        [visited |-> {}, visiting |-> {}, load_order |-> <<>>,
                         err |-> Ok],
                        depOrder)
    IN  [result |-> st.err, order |-> IF st.err.ok THEN st.load_order ELSE <<>>]

\* C30: resolve_dependencies is deterministic: for the same set of
\* discovered manifests it yields the same load order on every run, and for
\* a failing set the same error, whatever the iteration order of the
\* registry map and of each manifest's dependency map.
C30_ResolveDeterministic ==
    [][ret'.op = "resolve_dependencies" =>
          \A keys \in Orders(DOMAIN plugins), depOrder \in DepOrders :
              ResolutionUnder(keys, depOrder)
                  = [result |-> ret'.result, order |-> ret'.order]]_vars

(***************************************************************************)
(* SpecDispatch: event dispatch (reader of the registry lock) beside load  *)
(* and unload requests (writers)                                           *)
(***************************************************************************)
\* The events the dispatching task of main handles before the model stops it.
MaxDispatches == 2

UnloadTasks == {"u1"}

\* The task of main that takes each file change, ps.read().await, and awaits
\* ps.dispatch_event(event).
DispatchTasks == {"d1"}

\* The dispatching task between two events.
IdleDispatch(events) ==
    [pc |-> "idle", order |-> <<>>, started |-> <<>>, returned |-> {},
     events |-> events]

\* RwLock::read that is granted whatever holds the lock.
read_lock_always_free(tk) == TRUE

\* RwLock::read is granted when no write guard is alive.
read_lock_free(tk) == tk.writer = None

\* A loop that starts the next handler without awaiting the one before.
handler_idle_not_awaited(dispatch) == TRUE

\* runtime.on_event(&event).await: the loop is at its head again when every
\* handler it started has returned.
handler_idle(dispatch) ==
    \A i \in 1..Len(dispatch.started) : dispatch.started[i] \in dispatch.returned

DispatchUnchanged == UNCHANGED <<plugins, runtimes, ret, log>>

\* ps_event_dispatch.read().await, then the for loop of dispatch_event is
\* entered: the iteration order of the runtime table is fixed from here on.
dispatch_begin(d) ==
    /\ tasks.at[d].pc = "idle"
    /\ tasks.at[d].events < MaxDispatches
    /\ read_lock_free(tasks)
    /\ \E order \in Orders(DOMAIN runtimes) :
          tasks' = [tasks EXCEPT !.readers = @ \cup {d},
                                 !.at[d].pc = "reading",
                                 !.at[d].order = order]
    /\ DispatchUnchanged
    /\ ConcurrentUnchanged

\* The loop calls on_event of the next runner of the iteration.
on_event_start(d) ==
    /\ tasks.at[d].pc = "reading"
    /\ handler_idle(tasks.at[d])
    /\ Len(tasks.at[d].started) < Len(tasks.at[d].order)
    /\ tasks' = [tasks EXCEPT
                    !.at[d].started =
                        Append(@, tasks.at[d].order[Len(tasks.at[d].started) + 1])]
    /\ DispatchUnchanged
    /\ ConcurrentUnchanged

\* A handler returns, with Ok or with an error that the loop logs.
on_event_return(d, id) ==
    /\ tasks.at[d].pc = "reading"
    /\ \E i \in 1..Len(tasks.at[d].started) : tasks.at[d].started[i] = id
    /\ id \notin tasks.at[d].returned
    /\ tasks' = [tasks EXCEPT !.at[d].returned = @ \cup {id}]
    /\ DispatchUnchanged
    /\ ConcurrentUnchanged

\* The loop is over, dispatch_event returns and the read guard is dropped.
dispatch_end(d) ==
    /\ tasks.at[d].pc = "reading"
    /\ handler_idle(tasks.at[d])
    /\ Len(tasks.at[d].started) = Len(tasks.at[d].order)
    /\ tasks' = [tasks EXCEPT !.readers = @ \ {d},
                              !.at[d] = IdleDispatch(tasks.at[d].events + 1)]
    /\ DispatchUnchanged
    /\ ConcurrentUnchanged

\* unload_plugin up to runtime.unload().await: the runner is taken out of
\* the table; with no runner in the table the call sets the state and returns.
unload_plugin_begin(t) ==
    /\ tasks.at[t].pc = "locked"
    /\ LET id == tasks.at[t].id
       IN  IF id \in DOMAIN runtimes
           THEN /\ runtimes' = Remove(runtimes, id)
                /\ tasks' = [tasks EXCEPT !.at[t].pc = "in_unload"]
                /\ UNCHANGED <<plugins, ret, log>>
           ELSE LET reg == unload_plugin_in(Registry, id, TRUE)
                IN  /\ plugins' = reg.plugins
                    /\ log' = reg.log
                    /\ ret' = Result("unload_plugin", id, reg.result)
                    /\ tasks' = [tasks EXCEPT !.at[t].pc = "returned",
                                              !.at[t].result = reg.result]
                    /\ UNCHANGED runtimes
    /\ ConcurrentUnchanged

\* runtime.unload() returns; its error is logged, the state becomes Unloaded.
unload_plugin_end(t, unload_ok) ==
    /\ tasks.at[t].pc = "in_unload"
    /\ LET id == tasks.at[t].id
       IN  /\ plugins' = IF id \in DOMAIN plugins
                         THEN [plugins EXCEPT ![id].state = "Unloaded"]
                         ELSE plugins
           /\ log' = <<RunnerCall("unload", id, unload_ok)>>
           /\ ret' = Result("unload_plugin", id, Ok)
           /\ tasks' = [tasks EXCEPT !.at[t].pc = "returned", !.at[t].result = Ok]
    /\ UNCHANGED runtimes
    /\ ConcurrentUnchanged

\* p and q are discovered and enabled, nothing is loaded; the load tasks ask
\* for p and for q, the unload task for one of them.
InitDispatch ==
    /\ plugins = [id \in ApiIds |->
                     IF id = "p" THEN NewPlugin(ManifestP, TRUE)
                     ELSE NewPlugin(ManifestQ("Wasm", Empty), TRUE)]
    /\ dir = DirWith(ManifestQ("Wasm", Empty))
    /\ config = ApiIds
    /\ disk = [kind |-> "json", enabled_plugins |-> config]
    /\ host_version = HostVersion
    /\ files = Empty
    /\ runtimes = Empty
    /\ load_order = <<>>
    /\ event_bus = NewEventBus
    /\ storage = Empty
    /\ ret = NoResult
    /\ log = <<>>
    /\ inp = NoResult
    /\ out = NoResult
    /\ \E unloaded \in ApiIds :
          tasks = [writer |-> None, readers |-> {}, served |-> <<>>,
                   at |-> [t \in LoadTasks \cup UnloadTasks \cup DispatchTasks |->
                             IF t = "t1" THEN NewTask("p")
                             ELSE IF t = "t2" THEN NewTask("q")
                             ELSE IF t \in UnloadTasks THEN NewTask(unloaded)
                             ELSE IdleDispatch(0)]]

NextDispatch ==
    \/ \E t \in LoadTasks \cup UnloadTasks : acquire_write(t)
    \/ \E t \in LoadTasks : load_plugin_begin(t)
    \/ \E t \in LoadTasks, load_ok \in BOOLEAN : load_plugin_end(t, load_ok)
    \/ \E t \in UnloadTasks : unload_plugin_begin(t)
    \/ \E t \in UnloadTasks, unload_ok \in BOOLEAN : unload_plugin_end(t, unload_ok)
    \/ \E t \in LoadTasks \cup UnloadTasks : release_write(t)
    \/ \E d \in DispatchTasks :
          \/ dispatch_begin(d)
          \/ on_event_start(d)
          \/ \E id \in ApiIds : on_event_return(d, id)
          \/ dispatch_end(d)

SpecDispatch == InitDispatch /\ [][NextDispatch]_vars

\* C21: dispatch_event delivers one event to the runners of the runtime
\* table one at a time: handle-event of a runner starts only after
\* handle-event of the runner before it in the iteration has returned, so
\* while one handler has not returned no runner after it has received the
\* event.
C21_HandlersOneAtATime ==
    \A d \in DispatchTasks :
        LET dispatch == tasks.at[d]
        IN  dispatch.pc = "reading" =>
              /\ dispatch.started = SubSeq(dispatch.order, 1, Len(dispatch.started))
              /\ \A i, j \in 1..Len(dispatch.order) :
                    (i < j /\ j <= Len(dispatch.started))
                        => dispatch.order[i] \in dispatch.returned

\* Two runners are in the table; the handler of the first has not returned
\* and the second has not received the event.
C21_Witness ==
    /\ tasks.at["d1"].pc = "reading"
    /\ Len(tasks.at["d1"].order) = 2
    /\ Len(tasks.at["d1"].started) = 1
    /\ tasks.at["d1"].returned = {}

\* C22: event dispatch (reader of the registry lock) and lifecycle
\* transitions (writer) exclude each other: no event is delivered while an
\* extension is in state Loading or while an unload is in progress, and the
\* runtime table does not change between the first and the last delivery of
\* one dispatched event.
C22_DispatchExcludesLifecycle ==
    /\ [](\A d \in DispatchTasks :
            tasks.at[d].pc = "reading" =>
                /\ tasks.writer = None
                /\ \A id \in DOMAIN plugins : plugins[id].state # "Loading"
                /\ \A t \in LoadTasks \cup UnloadTasks :
                      tasks.at[t].pc \notin {"in_load", "in_unload"})
    /\ [][(\E d \in DispatchTasks :
              tasks.at[d].pc = "reading" /\ tasks'.at[d].pc = "reading")
            => runtimes' = runtimes /\ plugins' = plugins]_vars

\* An event is being delivered to the loaded p while the request to load q
\* and the request to unload wait for the lock.
C22_Witness ==
    /\ tasks.at["d1"].pc = "reading"
    /\ tasks.at["d1"].started = <<"p">>
    /\ tasks.at["t1"].pc = "done"
    /\ tasks.at["t2"].pc = "start"
    /\ tasks.at["u1"].pc = "start"

(***************************************************************************)
(* SpecDiscover: discovery over directories with unusable manifests        *)
(***************************************************************************)
\* The sub-directory of p: no manifest, a manifest that does not parse, or a
\* manifest in which any of the validated entries may be wrong, several at
\* once.
EntriesP ==
    {DirEntry(ManifestP, FALSE, FALSE), DirEntry(ManifestP, TRUE, FALSE)} \cup
    {DirEntry([ManifestP EXCEPT !.id = id, !.name = name, !.main = main,
                                !.version = version,
                                !.min_host_version = min_host_version],
              TRUE, TRUE) :
        id \in {"", "p"}, name \in {"", "p"}, main \in {"", "main.py"},
        version \in {HostVersion, <<"1", ".", "0">>},
        min_host_version \in {NoVersion, SomeVersion(HostVersion),
                              SomeVersion(<<"x">>),
                              SomeVersion(FormatVersion(<<2, 0, 0>>))}}

EntriesQ ==
    {DirEntry(ManifestQ("Wasm", Empty), TRUE, TRUE),
     DirEntry(ManifestQ("Wasm", Empty), FALSE, FALSE),
     DirEntry([ManifestQ("Wasm", Empty) EXCEPT !.version = <<>>], TRUE, TRUE)}

\* The call of load_plugin_manifest that the loop of discover_plugins makes
\* for one sub-directory, with what it returns.
ApplyLoadPluginManifest(entry) ==
    /\ entry \in dir.entries
    /\ out' = [op |-> "load_plugin_manifest", entry |-> entry,
               result |-> load_plugin_manifest(entry, config, host_version).result]
    /\ UNCHANGED <<dir, host_version, disk, files, plugins, runtimes,
                   load_order, config, event_bus, storage, ret, log, inp, tasks>>

InitDiscover ==
    /\ \E ep \in EntriesP, eq \in EntriesQ :
          dir = [exists |-> TRUE, entries |-> {ep, eq}]
    /\ disk \in {[kind |-> "missing"], [kind |-> "json", enabled_plugins |-> {"q"}]}
    /\ host_version = HostVersion
    /\ files = Empty
    /\ config = load_config(disk)
    /\ NewRegistry
    /\ inp = NoResult
    /\ out = NoResult

NextDiscover ==
    \/ \E io_ok \in BOOLEAN : discover_plugins(io_ok, io_ok)
    \/ \E entry \in EntriesP \cup EntriesQ : ApplyLoadPluginManifest(entry)

SpecDiscover == InitDiscover /\ [][NextDiscover]_vars

\* The validation rules in the order in which they are to be checked, and
\* the errors that belong to each.
ValidationRules == <<"id", "name", "entry point", "version", "minimum-host-version">>

RuleOfError(kind) ==
    CASE kind = "empty_id" -> "id"
      [] kind = "empty_name" -> "name"
      [] kind = "empty_main" -> "entry point"
      [] kind = "invalid_version" -> "version"
      [] kind \in {"invalid_min_host_version", "host_too_old"} -> "minimum-host-version"
      [] OTHER -> "none"

RuleFails(rule, manifest, host) ==
    CASE rule = "id" -> manifest.id = ""
      [] rule = "name" -> manifest.name = ""
      [] rule = "entry point" -> manifest.main = ""
      [] rule = "version" -> ~is_valid_semver(manifest.version)
      [] rule = "minimum-host-version" ->
            /\ manifest.min_host_version.some
            /\ \/ ~is_valid_semver(manifest.min_host_version.value)
               \/ ~version_satisfies(host, manifest.min_host_version.value)

FailingRules(manifest, host) ==
    {i \in DOMAIN ValidationRules : RuleFails(ValidationRules[i], manifest, host)}

\* A sub-directory whose manifest is there, parses and breaks no rule.
Usable(entry) ==
    /\ entry.has_manifest
    /\ entry.parses
    /\ FailingRules(entry.manifest, host_version) = {}

C32_RunnerIffLoaded ==
    \A id \in (DOMAIN plugins) \cup (DOMAIN runtimes) :
        id \in DOMAIN runtimes <=>
            (id \in DOMAIN plugins /\ plugins[id].state = "Loaded")

\* C33: a runner whose load() succeeded is never dropped or replaced in the
\* runtime table without its unload() having been called first: in every
\* sequence of enable, disable, load, unload and reload calls, load_plugin
\* never inserts a new runner over an existing runner of the same extension.
C33_RunnerUnloadedBeforeReplaced ==
    [][ret'.op \in {"enable_plugin", "disable_plugin", "load_plugin",
                    "unload_plugin", "reload_plugin"} =>
          \A id \in DOMAIN runtimes :
              LET unloads == {i \in 1..Len(log') :
                                 log'[i].call = "unload" /\ log'[i].id = id}
                  inserts == {i \in 1..Len(log') :
                                 log'[i] = RunnerCall("load", id, TRUE)}
              IN  /\ id \notin DOMAIN runtimes' => unloads # {}
                  /\ \A i \in inserts : \E j \in unloads : j < i]_vars

(***************************************************************************)
(* SpecHandle: the event bus as the API handles of two loaded extensions   *)
(* use it, and the unloading of an extension                               *)
(***************************************************************************)
InitHandle ==
    /\ \E caps \in CapChoices : LoadedRegistry(ApiIds, caps)
    /\ files = Empty
    /\ event_bus = NewEventBus
    /\ storage = Empty
    /\ ret = NoResult
    /\ tasks = NoTasks
    /\ log = <<>>
    /\ inp = NoResult
    /\ out = NoResult

NextHandle ==
    \/ \E p \in ApiIds :
          \/ \E t \in BusTypes : on_event(p, t)
          \/ \E e \in BusEvents : emit_event(p, e)
          \/ \E id \in 0..MaxSubs : off_event(p, id)
          \/ \E d \in Durations : show_notice(p, "m", d)
          \/ \E q \in ApiIds : send_message(p, q, "hello")
    \/ \E id \in ApiIds, ok \in BOOLEAN : unload_plugin(id, ok)

SpecHandle == InitHandle /\ [][NextHandle]_vars

\* The callbacks that the last operation made the bus invoke.
Invoked == {i \in 1..Len(log) : log[i].call = "callback"}

\* C34: after unload_plugin of an extension has completed, the resources it
\* acquired through its API handle are released: callbacks it subscribed on
\* the event bus are no longer invoked by any later emit.
C34_UnloadedCallbacksSilent ==
    \A i \in Invoked : plugins[log[i].callback.owner].state # "Unloaded"

\* C38: a ShowNotice event reaches the event bus's subscribers from an
\* extension's API handle only if that extension's granted capability set
\* contains ModifyUI.
C38_ShowNoticeNeedsModifyUI ==
    \A i \in Invoked :
        log[i].event.event_type = "ShowNotice"
            => "ModifyUI" \in runtimes[ret.by].api.capabilities

\* C39: off_event called through one extension's API handle removes only a
\* subscription that was created through that same handle.
C39_OffEventOwnSubscriptionsOnly ==
    [][ret'.op = "off_event" =>
          \A t \in DOMAIN event_bus.subscribers :
              \A i \in 1..Len(event_bus.subscribers[t]) :
                  LET sub == event_bus.subscribers[t][i]
                  IN  sub.id \notin IdSet(event_bus'.subscribers[t])
                          => sub.callback.owner = ret'.by]_vars

(***************************************************************************)
(* Failures of handlers and of unload hooks                                *)
(***************************************************************************)
\* C35: dispatch_event isolates handler failures: when handle-event of one
\* runner returns an error, the same event is still delivered to every other
\* runner in the table, dispatch_event itself completes without error, and
\* no extension's state, last_error or runner is changed by the dispatch.
C35_DispatchIsolatesFailures ==
    [][ret'.op = "dispatch_event" =>
          /\ ret'.result = Ok
          /\ \A id \in DOMAIN runtimes :
                Cardinality({i \in 1..Len(log') :
                                log'[i].call = "on_event" /\ log'[i].id = id}) = 1
          /\ Len(log') = Cardinality(DOMAIN runtimes)
          /\ plugins' = plugins
          /\ runtimes' = runtimes]_vars

\* The handler of the first of two runners failed and the second still
\* received the event.
C35_Witness ==
    /\ ret.op = "dispatch_event"
    /\ Len(log) = 2
    /\ ~log[1].ok
    /\ log[2].ok
    /\ log[1].id # log[2].id

\* C36: unload_plugin always returns success: for a known extension it
\* leaves the state Unloaded and no runner for it in the runtime table even
\* when the runner's unload hook failed, and for an unknown id it changes
\* nothing.
C36_UnloadAlwaysSucceeds ==
    [][ret'.op = "unload_plugin" =>
          /\ ret'.result = Ok
          /\ IF ret'.id \in DOMAIN plugins
             THEN /\ plugins'[ret'.id].state = "Unloaded"
                  /\ ret'.id \notin DOMAIN runtimes'
             ELSE plugins' = plugins /\ runtimes' = runtimes]_vars

\* The unload hook of the loaded p failed; p is Unloaded and has no runner.
C36_Witness ==
    /\ ret = Result("unload_plugin", "p", Ok)
    /\ log = <<RunnerCall("unload", "p", FALSE)>>
    /\ plugins["p"].state = "Unloaded"
    /\ "p" \notin DOMAIN runtimes

\* C37: whenever an extension is in state Loaded, every extension it declares
\* as a dependency is registered and in state Loaded too.
C37_LoadedHasLoadedDependencies ==
    \A id \in DOMAIN plugins :
        plugins[id].state = "Loaded"
           => \A d \in DOMAIN Dependencies(id) :
                 d \in DOMAIN plugins /\ plugins[d].state = "Loaded"

\* C40: enable_plugin and disable_plugin that return an error leave every
\* extension's enabled flag and lifecycle state, and the in-memory enabled
\* set, as they were before the call.
C40_FailedToggleChangesNothing ==
    [][(ret'.op \in {"enable_plugin", "disable_plugin"} /\ ~ret'.result.ok)
          => plugins' = plugins /\ config' = config]_vars

====
